---------------------------- MODULE Spec2Model ----------------------------
(***************************************************************************)
(* A model of the SpaceTraders control center (src/app.py): the utility    *)
(* functions, the HTTP client STClient with its retry loop and rate-limit  *)
(* governor, the cached read accessors, the command accessors with the     *)
(* button handlers that call them, and the pagination of waypoints.        *)
(*                                                                         *)
(* Durations are counted in twentieths of a second (0.05 s), the smallest  *)
(* step the code computes with, so that every sleep is an integer.         *)
(***************************************************************************)
EXTENDS Integers, Sequences, FiniteSets, TLC

VARIABLES
    pfn,      \* pure helpers: which helper was applied last ("none" before any)
    pin,      \* pure helpers: the argument it is applied to
    pout,     \* pure helpers: the value it returned
    rq,       \* STClient.request: the locals of the call in progress (or last made)
    token,    \* st.session_state["token"]
    cache,    \* the st.cache_data store: the entries of the cached read accessors
    clock,    \* the time, in seconds
    op,       \* the accessor call in progress, if any
    hist,     \* what the last completed accessor call or handler did
    pg,       \* fetch_system_waypoints: the locals of the call in progress
    sv        \* st.session_state["surveys"], and the survey handler in progress

pureVars == <<pfn, pin, pout>>
sessVars == <<token, cache, clock, op, hist>>
vars == <<pfn, pin, pout, rq, token, cache, clock, op, hist, pg, sv>>

-----------------------------------------------------------------------------
(* Bounds of the model.                                                    *)

MaxSymLen == 4        \* longest enumerated symbol string
MaxAttempt == 12      \* largest attempt number handed to backoff
MaxRetries == 4       \* largest retry budget a direct caller of request passes
MaxClock == 300       \* the clock stops at this many seconds
MaxCached == 1        \* most entries the model lets the cache hold at once
MaxItems == 2         \* most waypoints on one page
MaxSurveys == 3       \* most surveys the server issues in one run
MaxNewSurveys == 2    \* most surveys in one survey response
MaxWaypoints == 2     \* most waypoints in a listing that is classified
MaxSeconds == 130     \* durations 0..MaxSeconds are humanized, besides the samples

(* Program constants.                                                      *)

DefaultRetries == 4   \* request(..., retries: int = 4)
DefaultMaxPages == 5  \* fetch_system_waypoints(..., max_pages: int = 5)
FirstPage == 1        \* page = 1, and total_pages = 1
BackoffCap == 30      \* min(30, 2 ** attempt)
TicksPerSecond == 20  \* 1 s = 20 units of 0.05 s
ThrottleExtra == 5    \* the 0.25 s added to the reset delay, in units of 0.05 s

-----------------------------------------------------------------------------
(* Python values.  A string is a sequence of one-character strings; a      *)
(* value handed to normalize_symbol is a string or something else (None).  *)

PyStr(s) == [kind |-> "str", s |-> s, n |-> 0]
PyNone == [kind |-> "none", s |-> <<>>, n |-> 0]
PyInt(n) == [kind |-> "int", s |-> <<>>, n |-> n]

PureQuiet == pfn = "none" /\ pin = PyNone /\ pout = <<>>

Chars == {"A", "b", "-", " "}

RECURSIVE StringsUpTo(_)
StringsUpTo(n) ==
    IF n = 0 THEN {<<>>}
    ELSE LET shorter == StringsUpTo(n - 1)
         IN  shorter \cup {Append(s, c) : s \in {t \in shorter : Len(t) = n - 1}, c \in Chars}

SampleSymbols ==
    { <<"X", "1", "-", "A", "B", "C", "-", "D", "E", "F">>,
      <<"x", "1", "-", "a", "b", "c", "-", "d", "e", "f">>,
      <<"X", "1", "A", "B", "C">> }

SymbolInputs == {PyStr(s) : s \in StringsUpTo(MaxSymLen) \cup SampleSymbols} \cup {PyNone}

IsSpace(c) == c = " "

LowerLetters ==
    <<"a", "b", "c", "d", "e", "f", "g", "h", "i", "j", "k", "l", "m",
      "n", "o", "p", "q", "r", "s", "t", "u", "v", "w", "x", "y", "z">>

UpperLetters ==
    <<"A", "B", "C", "D", "E", "F", "G", "H", "I", "J", "K", "L", "M",
      "N", "O", "P", "Q", "R", "S", "T", "U", "V", "W", "X", "Y", "Z">>

UpperChar(c) ==
    IF \E i \in 1..26 : LowerLetters[i] = c
    THEN UpperLetters[CHOOSE i \in 1..26 : LowerLetters[i] = c]
    ELSE c

Upper(s) == [i \in 1..Len(s) |-> UpperChar(s[i])]

RECURSIVE StripLeft(_)
StripLeft(s) == IF s # <<>> /\ IsSpace(Head(s)) THEN StripLeft(Tail(s)) ELSE s

RECURSIVE StripRight(_)
StripRight(s) ==
    IF s # <<>> /\ IsSpace(s[Len(s)]) THEN StripRight(SubSeq(s, 1, Len(s) - 1)) ELSE s

Strip(s) == StripRight(StripLeft(s))

(* str.split("-"): the segments between dashes; always at least one.       *)
RECURSIVE Split(_)
Split(s) ==
    IF \A i \in 1..Len(s) : s[i] # "-" THEN <<s>>
    ELSE LET d == CHOOSE i \in 1..Len(s) : s[i] = "-" /\ \A j \in 1..(i - 1) : s[j] # "-"
         IN  <<SubSeq(s, 1, d - 1)>> \o Split(SubSeq(s, d + 1, Len(s)))

(* "-".join(parts[:2]) for a list of at least two parts.                   *)
JoinFirstTwo(parts) == parts[1] \o <<"-">> \o parts[2]

normalize_symbol(symbol) == IF symbol.kind = "str" THEN Upper(Strip(symbol.s)) ELSE <<>>

FirstSegmentOnly(symbol) ==
    LET parts == Split(normalize_symbol(symbol))
    IN  IF Len(parts) >= 2 THEN parts[1] ELSE <<>>

system_symbol_from_waypoint(symbol) ==
    LET parts == Split(normalize_symbol(symbol))
    IN  IF Len(parts) >= 2 THEN JoinFirstTwo(parts) ELSE <<>>

Min(a, b) == IF a <= b THEN a ELSE b
Max(a, b) == IF a >= b THEN a ELSE b

(* backoff(attempt) = min(30, 2 ** attempt) + 0.05 * attempt, in units of  *)
(* 0.05 s.  (The floating-point sums of the code are exact at the values   *)
(* the claims name: 2 + 0.05 = 2.05 and 30 + 0.5 = 30.5.)                  *)
ExpTerm(attempt) == Min(BackoffCap, 2 ^ attempt)

UncappedBackoff(attempt) == TicksPerSecond * (2 ^ attempt) + attempt

backoff(attempt) == TicksPerSecond * ExpTerm(attempt) + attempt

-----------------------------------------------------------------------------
(* HTTP responses.  A rate-limit header is absent, holds text that int()   *)
(* rejects, or holds an integer.  The body parses as JSON or does not; a   *)
(* parsed body names the fields in `names` (with the quoting that the      *)
(* string form of the parsed payload shows them in).                       *)

HdrAbsent == [h |-> "absent", v |-> 0]
HdrBad == [h |-> "bad", v |-> 0]
HdrInt(n) == [h |-> "int", v |-> n]

HeaderDefault == 1    \* r.headers.get(name, "1")
ThrottleAt == 1       \* if remaining <= 1

Retryable == {429, 500, 502, 503, 504}

Statuses == {200, 304, 400, 404} \cup Retryable

NoResponse ==
    [kind |-> "none", status |-> 0, remaining |-> HdrAbsent, reset |-> HdrAbsent,
     json |-> FALSE, names |-> {}]

(* requests raised instead of returning a response (connection error,      *)
(* timeout): not an HTTPError.                                             *)
NetFailure == [NoResponse EXCEPT !.kind = "net"]

HttpResponse(status, remaining, reset, json, names) ==
    [kind |-> "http", status |-> status, remaining |-> remaining, reset |-> reset,
     json |-> json, names |-> names]

RemainingHeaders == {HdrAbsent, HdrBad, HdrInt(0), HdrInt(1), HdrInt(2)}
ResetHeaders == {HdrAbsent, HdrBad, HdrInt(0), HdrInt(2)}

(* Bodies that name a field, as a JSON error payload or as plain text.      *)
NamingResponses ==
    {HttpResponse(st, HdrInt(2), HdrInt(0), j, {"'course'"}) :
        st \in {400, 503}, j \in BOOLEAN}

Responses ==
    {NetFailure} \cup NamingResponses \cup
    {HttpResponse(st, rem, rst, j, {}) :
        st \in Statuses, rem \in RemainingHeaders, rst \in ResetHeaders, j \in BOOLEAN}

-----------------------------------------------------------------------------
(* STClient.                                                               *)

Sleep(why, d) == [why |-> why, d |-> d]

HeaderGetOrZero(hdr) == IF hdr.h = "absent" THEN HdrInt(0) ELSE hdr

HeaderGet(hdr) == IF hdr.h = "absent" THEN HdrInt(HeaderDefault) ELSE hdr

(* Response.raise_for_status() raises HTTPError for 4xx and 5xx only.      *)
RaisesForStatus(status) == status >= 400 /\ status < 600

IsSuccessStatus(status) == status >= 200 /\ status < 300

(* _respect_rate: the sleeps it takes for one response.  int() of either   *)
(* header failing, or time.sleep refusing a negative length, ends it       *)
(* silently (except Exception: pass).                                      *)
ThrottleBelowOne(resp) ==
    LET remaining == HeaderGet(resp.remaining)
        reset == HeaderGet(resp.reset)
    IN  IF /\ remaining.h = "int" /\ reset.h = "int"
           /\ remaining.v < ThrottleAt
           /\ TicksPerSecond * reset.v + ThrottleExtra >= 0
        THEN <<Sleep("throttle", TicksPerSecond * reset.v + ThrottleExtra)>>
        ELSE <<>>

ThrottleOnMalformed(resp) ==
    LET remaining == HeaderGet(resp.remaining)
        reset == HeaderGet(resp.reset)
        rem == IF remaining.h = "int" THEN remaining.v ELSE HeaderDefault
        rst == IF reset.h = "int" THEN reset.v ELSE HeaderDefault
    IN  IF rem <= ThrottleAt /\ TicksPerSecond * rst + ThrottleExtra >= 0
        THEN <<Sleep("throttle", TicksPerSecond * rst + ThrottleExtra)>>
        ELSE <<>>

respect_rate(resp) ==
    LET remaining == HeaderGet(resp.remaining)
        reset == HeaderGet(resp.reset)
    IN  IF /\ remaining.h = "int" /\ reset.h = "int"
           /\ remaining.v <= ThrottleAt
           /\ TicksPerSecond * reset.v + ThrottleExtra >= 0
        THEN <<Sleep("throttle", TicksPerSecond * reset.v + ThrottleExtra)>>
        ELSE <<>>

NoError == [status |-> 0, method |-> "", path |-> "", parsed |-> FALSE, names |-> {}]

ErrorWithRawText(r, resp) ==
    [status |-> resp.status, method |-> r.method, path |-> r.path,
     parsed |-> resp.json, names |-> resp.names]

(* The RuntimeError of line 224: f"HTTP {status} {method} {path}: {detail}" *)
(* with detail = r.json(), or {"error": str(e)} when the body is no JSON.   *)
HttpError(r, resp) ==
    [status |-> resp.status, method |-> r.method, path |-> r.path,
     parsed |-> resp.json, names |-> IF resp.json THEN resp.names ELSE {}]

IdleRequest ==
    [pc |-> "idle", method |-> "", path |-> "", params |-> "", body |-> "",
     retries |-> 0, attempt |-> 0, nreq |-> 0, sent |-> <<>>, slept |-> <<>>,
     last |-> NoResponse, allRetryable |-> TRUE, exc |-> "none", err |-> NoError]

IdlePages ==
    [pc |-> "idle", max_pages |-> 0, page |-> 0, total_pages |-> 0,
     waypoints |-> <<>>, asked |-> <<>>, seen |-> <<>>]

Ships == {"SHIP-1", "SHIP-2"}

NoHandler == [kind |-> "none", ship |-> "", idx |-> 0, survey |-> 0]

(* st.session_state["surveys"] = {} (a ship without a key has no list), and *)
(* what became of each survey the server issued.                            *)
NoSurveys ==
    [lists |-> [s \in Ships |-> <<>>], next |-> 1, issued |-> {}, consumed |-> {},
     expired |-> {}, cur |-> NoHandler]

(* request(method, path, body=..., retries=...) up to the loop: attempt = 0 *)
NewRequestWith(method, path, params, body, retries) ==
    [IdleRequest EXCEPT !.pc = "loop", !.method = method, !.path = path,
                        !.params = params, !.body = body, !.retries = retries]

(* A call that passes no query parameters (params=None).                   *)
NewRequest(method, path, body, retries) ==
    NewRequestWith(method, path, "none", body, retries)

WireEmptyBodyOnRetry(r) ==
    [method |-> r.method, path |-> r.path, params |-> r.params,
     body |-> IF r.attempt > 0 THEN "none" ELSE r.body]

(* What self.s.request(method, url, params=params, json=payload) puts on   *)
(* the wire in a pass: payload is computed from body again in every pass.  *)
Wire(r) == [method |-> r.method, path |-> r.path, params |-> r.params, body |-> r.body]

ExhaustedOneEarly(attempt, retries) == attempt >= retries

ExhaustedOneLate(attempt, retries) == attempt > retries + 1

RetryExhausted(attempt, retries) == attempt > retries

RaiseAfterBackoff(r, resp, attempt, slept) ==
    [r EXCEPT !.pc = "raised", !.exc = "RuntimeError", !.err = HttpError(r, resp),
              !.attempt = attempt, !.nreq = @ + 1, !.sent = Append(@, Wire(r)),
              !.slept = slept \o <<Sleep("backoff", backoff(attempt))>>, !.last = resp,
              !.allRetryable = @ /\ resp.status \in Retryable]

RaiseRuntimeError(r, resp, attempt, slept) ==
    [r EXCEPT !.pc = "raised", !.exc = "RuntimeError", !.err = HttpError(r, resp),
              !.attempt = attempt, !.nreq = @ + 1, !.sent = Append(@, Wire(r)),
              !.slept = slept, !.last = resp,
              !.allRetryable = @ /\ resp.status \in Retryable]

BackoffOnNetFailure(r, resp) ==
    IF RetryExhausted(r.attempt + 1, r.retries)
    THEN [r EXCEPT !.pc = "raised", !.exc = "RequestException", !.nreq = @ + 1,
                   !.sent = Append(@, Wire(r)),
                   !.slept = <<>>, !.last = resp, !.allRetryable = FALSE]
    ELSE [r EXCEPT !.attempt = @ + 1, !.nreq = @ + 1, !.sent = Append(@, Wire(r)),
                   !.slept = <<Sleep("backoff", backoff(r.attempt + 1))>>,
                   !.last = resp, !.allRetryable = FALSE]

(* self.s.request raises (connection error, timeout): no response, so no   *)
(* _respect_rate; the exception is no HTTPError, passes the except clause  *)
(* of line 218 and leaves request.                                         *)
RaiseRequestException(r, resp) ==
    [r EXCEPT !.pc = "raised", !.exc = "RequestException", !.nreq = @ + 1,
              !.sent = Append(@, Wire(r)),
              !.slept = <<>>, !.last = resp, !.allRetryable = FALSE]

(* One pass of the while loop of request: send, _respect_rate, then the    *)
(* status.  The result is the call's locals after the pass: still in the   *)
(* loop (a retry is due), returned, or raised.                             *)
request_pass(r, resp) ==
    LET throttle == respect_rate(resp)
    IN  IF resp.kind = "net"
        THEN RaiseRequestException(r, resp)
        ELSE IF resp.status \in Retryable
        THEN IF RetryExhausted(r.attempt + 1, r.retries) /\ RaisesForStatus(resp.status)
             THEN RaiseRuntimeError(r, resp, r.attempt + 1, throttle)
             ELSE [r EXCEPT !.attempt = @ + 1, !.nreq = @ + 1,
                            !.sent = Append(@, Wire(r)), !.last = resp,
                            !.slept = throttle \o <<Sleep("backoff", backoff(r.attempt + 1))>>]
        ELSE IF RaisesForStatus(resp.status)
        THEN RaiseRuntimeError(r, resp, r.attempt, throttle)
        ELSE IF resp.json
        THEN [r EXCEPT !.pc = "returned", !.nreq = @ + 1,
                       !.sent = Append(@, Wire(r)), !.slept = throttle,
                       !.last = resp, !.allRetryable = FALSE]
        ELSE [r EXCEPT !.pc = "raised", !.exc = "JSONDecodeError", !.nreq = @ + 1,
                       !.sent = Append(@, Wire(r)),
                       !.slept = throttle, !.last = resp, !.allRetryable = FALSE]

-----------------------------------------------------------------------------
(* The session: the token, the read cache and the accessors.               *)

NoToken == "None"
Tokens == {"tokA", "tokB"}
TokenInputs == Tokens \cup {""}

ReadAccessors ==
    {"api_my_agent", "api_my_ships", "api_my_contracts", "api_systems",
     "api_waypoints", "api_market", "api_shipyard"}

SameTtlForAll(acc) == 300

(* @st.cache_data(ttl=...) of each read accessor, in seconds.              *)
ttl(acc) ==
    CASE acc = "api_my_agent" -> 60
      [] acc = "api_my_ships" -> 30
      [] acc = "api_my_contracts" -> 60
      [] acc = "api_systems" -> 300
      [] acc = "api_waypoints" -> 300
      [] acc = "api_market" -> 120
      [] acc = "api_shipyard" -> 300

WaypointKeyed == {"api_market", "api_shipyard"}

GoodWaypoints == {PyStr(<<"A", "-", "b">>)}
BadWaypoints == {PyStr(<<>>), PyStr(<<" ">>), PyStr(<<"A">>), PyNone}
Pages == {PyInt(1), PyInt(2)}

(* The argument tuples each read accessor is called with.                  *)
ReadArgs(acc) ==
    IF acc \in WaypointKeyed THEN GoodWaypoints \cup BadWaypoints
    ELSE IF acc = "api_my_ships" THEN Pages
    ELSE {PyInt(1)}

(* st.cache_data: an entry is keyed by the accessor and all its arguments  *)
(* (the token among them) and served while younger than the ttl.           *)
KeyWithoutToken(acc, tok, arg) == [acc |-> acc, tok |-> NoToken, arg |-> arg]

Key(acc, tok, arg) == [acc |-> acc, tok |-> tok, arg |-> arg]

Cached(key) == {e \in cache : e.key = key}

Fresh(e, now) == now - e.at < ttl(e.key.acc)

CacheLookup(key, now) == {e \in Cached(key) : Fresh(e, now)}

(* The payload stored is the one the body fetched with STClient(token):    *)
(* `by` is the token of its Authorization header (line 170).               *)
CacheStore(key, now) ==
    (cache \ Cached(key)) \cup {[key |-> key, at |-> now, by |-> token]}

NoOp == [kind |-> "none", name |-> "", arg |-> PyNone, bodies |-> <<>>, net |-> 0,
         first |-> [exc |-> "none", err |-> NoError]]

(* hist: the call (kind, name, tok, arg), how it ended (outcome: "hit", "ok", *)
(* "err", or "invalid" for an exception raised before any request),         *)
(* whether the handler asked for a rerun (trigger_rerun), the               *)
(* HTTP requests it sent (net), for a read the time its payload was stored  *)
(* (or the time it failed), the payload's age when served and the token it  *)
(* was fetched with (by), and for                                           *)
(* api_nav the bodies submitted and the exceptions of the first and of the  *)
(* last request.                                                            *)
NoHist ==
    [kind |-> "none", name |-> "", tok |-> NoToken, arg |-> PyNone, outcome |-> "",
     net |-> 0, at |-> 0, age |-> 0, by |-> NoToken, bodies |-> <<>>, rerun |-> FALSE,
     first |-> [exc |-> "none", err |-> NoError],
     final |-> [exc |-> "none", err |-> NoError]]

Running == [NoHist EXCEPT !.kind = "running"]

Done(kind, name, arg, outcome, net) ==
    [NoHist EXCEPT !.kind = kind, !.name = name, !.tok = token, !.arg = arg,
                   !.outcome = outcome, !.net = net]

Raised(r) == [exc |-> r.exc, err |-> r.err]
Thrown(r) == [exc |-> r.exc, err |-> NoError]

SessQuiet ==
    /\ token = NoToken /\ cache = {} /\ clock = 0 /\ op = NoOp /\ hist = NoHist

AuthenticatedAlways == TRUE

(* if st.session_state.get("token"): / if not token: st.stop()              *)
Authenticated == token # NoToken /\ token # ""

Idle == op.kind = "none"

(* Sidebar, "Use Token" (lines 521-528).                                   *)
UseToken ==
    /\ Idle
    /\ \E token_input \in TokenInputs :
           IF token_input # ""
           THEN /\ token' = token_input
                /\ cache' = {}
                /\ hist' = [NoHist EXCEPT !.kind = "token", !.name = "use",
                                          !.tok = token_input, !.rerun = TRUE]
           ELSE /\ hist' = [NoHist EXCEPT !.kind = "token", !.name = "warn", !.tok = token]
                /\ UNCHANGED <<token, cache>>
    /\ UNCHANGED <<pg, pureVars, rq, clock, op, sv>>

(* Sidebar, "Clear Token" (lines 530-534).                                 *)
ClearToken ==
    /\ Idle
    /\ token' = NoToken
    /\ cache' = {}
    /\ hist' = [NoHist EXCEPT !.kind = "token", !.name = "clear", !.rerun = TRUE]
    /\ UNCHANGED <<pg, pureVars, rq, clock, op, sv>>

(* Fleet tab, "Refresh" (lines 739-741).                                   *)
Refresh ==
    /\ Idle /\ Authenticated
    /\ cache' = {}
    /\ hist' = [Done("refresh", "refresh", PyNone, "ok", 0) EXCEPT !.rerun = TRUE]
    /\ UNCHANGED <<pg, pureVars, rq, token, clock, op, sv>>

(* Time passes, between calls and during them, up to any later instant.    *)
Instants == {t \in {0, 30, 60, 120, 300, 330} : t <= MaxClock}

Tick ==
    /\ \E t \in Instants : t > clock /\ clock' = t
    /\ UNCHANGED <<pg, pureVars, rq, token, cache, op, hist, sv>>

NeverInvalid(acc, arg) == FALSE

(* api_market / api_shipyard: "if not sys_sym: raise RuntimeError".        *)
ReadInvalid(acc, arg) ==
    acc \in WaypointKeyed /\ system_symbol_from_waypoint(arg) = <<>>

(* A read accessor is called.  The cache answers if it holds a fresh entry *)
(* for the arguments; otherwise the body runs: it raises before any        *)
(* request on an undetermined system, else it starts the GET.              *)
ReadStart ==
    /\ Idle /\ Authenticated
    /\ \E acc \in ReadAccessors : \E arg \in ReadArgs(acc) :
         LET key == Key(acc, token, arg)
             hit == CacheLookup(key, clock)
         IN  IF hit # {}
             THEN /\ hist' = [Done("read", acc, arg, "hit", 0) EXCEPT
                                 !.at = (CHOOSE e \in hit : TRUE).at,
                                 !.by = (CHOOSE e \in hit : TRUE).by,
                                 !.age = clock - (CHOOSE e \in hit : TRUE).at]
                  /\ UNCHANGED <<rq, op>>
             ELSE IF ReadInvalid(acc, arg)
             THEN /\ hist' = [Done("read", acc, arg, "invalid", 0) EXCEPT
                                 !.at = clock,
                                 !.final = [exc |-> "RuntimeError", err |-> NoError]]
                  /\ UNCHANGED <<rq, op>>
             ELSE /\ Cached(key) # {} \/ Cardinality(cache) < MaxCached
                  /\ rq' = NewRequest("GET", acc, "none", DefaultRetries)
                  /\ op' = [NoOp EXCEPT !.kind = "read", !.name = acc, !.arg = arg]
                  /\ hist' = Running
    /\ UNCHANGED <<pg, pureVars, token, cache, clock, sv>>

(* One pass of the GET of a read accessor.  A returned payload is stored   *)
(* under the call's key; an exception is not.                              *)
ReadPassOf(resp) ==
    /\ op.kind = "read" /\ rq.pc = "loop"
    /\ LET r == request_pass(rq, resp)
       IN  IF r.pc = "loop"
           THEN /\ rq' = r
                /\ UNCHANGED <<cache, op, hist>>
           ELSE /\ rq' = IdleRequest
                /\ op' = NoOp
                /\ IF r.pc = "returned"
                   THEN /\ cache' = CacheStore(Key(op.name, token, op.arg), clock)
                        /\ hist' = [Done("read", op.name, op.arg, "ok", r.nreq) EXCEPT
                                       !.at = clock, !.by = token]
                   ELSE /\ hist' = [Done("read", op.name, op.arg, "err", r.nreq) EXCEPT
                                       !.at = clock, !.final = Thrown(r)]
                        /\ UNCHANGED cache
    /\ UNCHANGED <<pg, pureVars, token, clock, sv>>

(* The command accessors (lines 376-487) other than api_nav, and           *)
(* api_nav_status, which the "Sync" button calls.                          *)
Commands ==
    {"api_orbit", "api_dock", "api_refuel", "api_extract", "api_survey",
     "api_jettison", "api_sell", "api_buy", "api_deliver", "api_accept_contract",
     "api_purchase_ship", "api_repair_ship", "api_scrap_ship", "api_transfer_cargo",
     "api_nav_status"}

CommandMethod(cmd) == IF cmd = "api_nav_status" THEN "GET" ELSE "POST"

(* Whether the handler calling the command runs st.cache_data.clear() once *)
(* the accessor has returned: every handler but the Survey button's        *)
(* (lines 856-868).                                                        *)
HandlerClearsCache(cmd) == cmd # "api_survey"

ClearedWhateverTheOutcome(cmd, returned, entries) ==
    IF HandlerClearsCache(cmd) THEN {} ELSE entries

(* The cache after a handler's try block: st.cache_data.clear() comes      *)
(* after the accessor call inside the try, so an exception skips it (and   *)
(* the trigger_rerun() that follows it).                                   *)
CacheAfterCommand(cmd, returned, entries) ==
    IF returned /\ HandlerClearsCache(cmd) THEN {} ELSE entries

CommandStart ==
    /\ Idle /\ Authenticated
    /\ \E cmd \in Commands :
         /\ rq' = NewRequest(CommandMethod(cmd), cmd, "body", DefaultRetries)
         /\ op' = [NoOp EXCEPT !.kind = "cmd", !.name = cmd]
    /\ hist' = Running
    /\ UNCHANGED <<pg, pureVars, token, cache, clock, sv>>

(* One pass of the request of a command, and, when it ends the call, the   *)
(* rest of the handler: try: ...; st.cache_data.clear(); trigger_rerun()   *)
(* except Exception: toast_err.                                            *)
CommandPassOf(resp) ==
    /\ op.kind = "cmd" /\ rq.pc = "loop"
    /\ LET r == request_pass(rq, resp)
       IN  IF r.pc = "loop"
           THEN /\ rq' = r
                /\ UNCHANGED <<cache, op, hist>>
           ELSE /\ rq' = IdleRequest
                /\ op' = NoOp
                /\ cache' = CacheAfterCommand(op.name, r.pc = "returned", cache)
                /\ IF r.pc = "returned"
                   THEN hist' = [Done("cmd", op.name, PyNone, "ok", r.nreq) EXCEPT
                                    !.rerun = HandlerClearsCache(op.name)]
                   ELSE hist' = [Done("cmd", op.name, PyNone, "err", r.nreq) EXCEPT
                                    !.final = Thrown(r)]
    /\ UNCHANGED <<pg, pureVars, token, clock, sv>>

(* api_nav (lines 391-408).  The text of the RuntimeError holds the string *)
(* form of the parsed error payload, so it holds a hint exactly when the   *)
(* payload names it.                                                       *)
CourseHints == {"'course'", "\"course\"", "course.destination"}

HintsWithDestination(err) ==
    err.names \cap (CourseHints \cup {"'destination'"}) # {}

MessageHasCourseHint(err) == err.names \cap CourseHints # {}

NavStart ==
    /\ Idle /\ Authenticated
    /\ \E wp \in GoodWaypoints \cup BadWaypoints :
         IF normalize_symbol(wp) = <<>>
         THEN /\ hist' = [Done("nav", "api_nav", wp, "invalid", 0) EXCEPT
                             !.final = [exc |-> "ValueError", err |-> NoError]]
              /\ UNCHANGED <<rq, op>>
         ELSE /\ rq' = NewRequest("POST", "navigate", "waypointSymbol", DefaultRetries)
              /\ op' = [NoOp EXCEPT !.kind = "nav", !.name = "api_nav", !.arg = wp,
                                    !.bodies = <<"waypointSymbol">>]
              /\ hist' = Running
    /\ UNCHANGED <<pg, pureVars, token, cache, clock, sv>>

NavDoneWithFirstError(r, outcome) ==
    [Done("nav", "api_nav", op.arg, outcome, op.net + r.nreq) EXCEPT
        !.bodies = op.bodies,
        !.first = IF Len(op.bodies) = 1 THEN Raised(r) ELSE op.first,
        !.final = IF Len(op.bodies) = 1 THEN Raised(r) ELSE op.first]

NavDone(r, outcome) ==
    [Done("nav", "api_nav", op.arg, outcome, op.net + r.nreq) EXCEPT
        !.bodies = op.bodies,
        !.first = IF Len(op.bodies) = 1 THEN Raised(r) ELSE op.first,
        !.final = Raised(r)]

(* One pass of a request of api_nav, and what follows when it ends the     *)
(* request: the return, the second request with the course-wrapped body,   *)
(* or the exception reaching the handler.                                  *)
NavPassOf(resp) ==
    /\ op.kind = "nav" /\ rq.pc = "loop"
    /\ LET r == request_pass(rq, resp)
       IN  IF r.pc = "loop"
           THEN /\ rq' = r
                /\ UNCHANGED <<cache, op, hist>>
           ELSE IF r.pc = "returned"
           THEN /\ rq' = IdleRequest
                /\ op' = NoOp
                /\ cache' = {}
                /\ hist' = [NavDone(r, "ok") EXCEPT !.rerun = TRUE]
           ELSE IF /\ Len(op.bodies) = 1
                   /\ r.exc = "RuntimeError"
                   /\ MessageHasCourseHint(r.err)
           THEN /\ rq' = NewRequest("POST", "navigate", "course", DefaultRetries)
                /\ op' = [op EXCEPT !.bodies = Append(@, "course"), !.net = r.nreq,
                                    !.first = Raised(r)]
                /\ UNCHANGED <<cache, hist>>
           ELSE /\ rq' = IdleRequest
                /\ op' = NoOp
                /\ hist' = NavDone(r, "err")
                /\ UNCHANGED cache
    /\ UNCHANGED <<pg, pureVars, token, clock, sv>>

(* The responses the session is run against.                               *)
ErrorNames ==
    {{}, {"'course'"}, {"\"course\""}, {"course.destination"}, {"'destination'"}, {"course"}}

SessionResponses ==
    {HttpResponse(200, HdrInt(2), HdrInt(0), TRUE, {}),
     HttpResponse(503, HdrInt(2), HdrInt(0), TRUE, {}),
     HttpResponse(404, HdrInt(2), HdrInt(0), FALSE, {"'course'"})}
    \cup {HttpResponse(400, HdrInt(2), HdrInt(0), TRUE, names) : names \in ErrorNames}

ReadPass == \E resp \in SessionResponses : ReadPassOf(resp)
CommandPass == \E resp \in SessionResponses : CommandPassOf(resp)
NavPass == \E resp \in SessionResponses : NavPassOf(resp)

Init == PureQuiet /\ rq = IdleRequest /\ SessQuiet /\ pg = IdlePages /\ sv = NoSurveys

Next ==
    \/ UseToken \/ ClearToken \/ Refresh \/ Tick
    \/ ReadStart \/ ReadPass
    \/ CommandStart \/ CommandPass
    \/ NavStart \/ NavPass

Spec == Init /\ [][Next]_vars

-----------------------------------------------------------------------------
(* fetch_system_waypoints (lines 290-311): the body the cache wraps.       *)

(* A page as the server sends it: a JSON object or some other JSON value;  *)
(* `count` waypoints under "data"; meta.totalPages absent, null ("bad") or *)
(* an integer.                                                             *)
PageBody(isDict, count, total) == [isDict |-> isDict, count |-> count, total |-> total]

ReportedTotals == {HdrAbsent, HdrBad, HdrInt(0), HdrInt(3), HdrInt(6)}

PageBodies ==
    {PageBody(TRUE, c, t) : c \in 0..MaxItems, t \in ReportedTotals}
        \cup {PageBody(FALSE, 0, HdrAbsent)}

(* The waypoints of a page: told apart by page and position.               *)
Items(page, count) == [i \in 1..count |-> [page |-> page, idx |-> i]]

(* Lines 293-298: the locals, and the first test of the while condition.   *)
NewPages(max_pages) ==
    LET p == [IdlePages EXCEPT !.max_pages = max_pages, !.page = FirstPage,
                               !.total_pages = FirstPage]
    IN  IF p.page <= p.max_pages /\ p.page <= p.total_pages
        THEN [p EXCEPT !.pc = "loop", !.asked = <<p.page>>]
        ELSE [p EXCEPT !.pc = "returned"]

StopsOnePageEarly(p, body) ==
    LET data == IF body.isDict THEN Items(p.page, body.count) ELSE <<>>
        total == IF body.isDict /\ body.total.h = "int"
                 THEN Max(p.total_pages, body.total.v) ELSE p.total_pages
        q == [p EXCEPT !.waypoints = @ \o data, !.total_pages = total,
                       !.seen = Append(@, [count |-> Len(data),
                                           total |-> IF body.isDict THEN body.total
                                                     ELSE HdrAbsent])]
    IN  IF body.isDict /\ body.total.h = "bad" THEN [q EXCEPT !.pc = "raised"]
        ELSE IF data = <<>> THEN [q EXCEPT !.pc = "returned"]
        ELSE IF p.page + 1 <= p.max_pages /\ p.page + 1 < total
        THEN [q EXCEPT !.page = @ + 1, !.asked = Append(@, p.page + 1)]
        ELSE [q EXCEPT !.page = @ + 1, !.pc = "returned"]

TakesLatestTotal(p, body) ==
    LET data == IF body.isDict THEN Items(p.page, body.count) ELSE <<>>
        total == IF body.isDict /\ body.total.h = "int"
                 THEN body.total.v ELSE p.total_pages
        q == [p EXCEPT !.waypoints = @ \o data, !.total_pages = total,
                       !.seen = Append(@, [count |-> Len(data),
                                           total |-> IF body.isDict THEN body.total
                                                     ELSE HdrAbsent])]
    IN  IF body.isDict /\ body.total.h = "bad" THEN [q EXCEPT !.pc = "raised"]
        ELSE IF data = <<>> THEN [q EXCEPT !.pc = "returned"]
        ELSE IF p.page + 1 <= p.max_pages /\ p.page + 1 <= total
        THEN [q EXCEPT !.page = @ + 1, !.asked = Append(@, p.page + 1)]
        ELSE [q EXCEPT !.page = @ + 1, !.pc = "returned"]

(* Lines 303-309 and the next test of the while condition, for the payload *)
(* of the page just fetched.  max(total_pages, None) raises TypeError.     *)
page_step(p, body) ==
    LET data == IF body.isDict THEN Items(p.page, body.count) ELSE <<>>
        total == IF body.isDict /\ body.total.h = "int"
                 THEN Max(p.total_pages, body.total.v) ELSE p.total_pages
        q == [p EXCEPT !.waypoints = @ \o data, !.total_pages = total,
                       !.seen = Append(@, [count |-> Len(data),
                                           total |-> IF body.isDict THEN body.total
                                                     ELSE HdrAbsent])]
    IN  IF body.isDict /\ body.total.h = "bad" THEN [q EXCEPT !.pc = "raised"]
        ELSE IF data = <<>> THEN [q EXCEPT !.pc = "returned"]
        ELSE IF p.page + 1 <= p.max_pages /\ p.page + 1 <= total
        THEN [q EXCEPT !.page = @ + 1, !.asked = Append(@, p.page + 1)]
        ELSE [q EXCEPT !.page = @ + 1, !.pc = "returned"]

PageRequest == NewRequest("GET", "waypoints", "none", DefaultRetries)

PageStart ==
    /\ pg.pc # "loop"
    /\ \E max_pages \in 1..DefaultMaxPages :
         /\ pg' = NewPages(max_pages)
         /\ rq' = IF pg'.pc = "loop" THEN PageRequest ELSE IdleRequest
    /\ UNCHANGED <<pureVars, sessVars, sv>>

(* One pass of the GET of the current page; when it returns, the rest of   *)
(* the loop body; when it raises, the exception leaves the function.       *)
PagePassOf(resp, body) ==
    /\ pg.pc = "loop" /\ rq.pc = "loop"
    /\ LET r == request_pass(rq, resp)
       IN  IF r.pc = "loop"
           THEN rq' = r /\ UNCHANGED pg
           ELSE IF r.pc = "raised"
           THEN rq' = IdleRequest /\ pg' = [pg EXCEPT !.pc = "raised"]
           ELSE /\ pg' = page_step(pg, body)
                /\ rq' = IF pg'.pc = "loop" THEN PageRequest ELSE IdleRequest
    /\ UNCHANGED <<pureVars, sessVars, sv>>

PageResponses ==
    {HttpResponse(200, HdrInt(2), HdrInt(0), TRUE, {}),
     HttpResponse(503, HdrInt(2), HdrInt(0), TRUE, {}),
     HttpResponse(404, HdrInt(2), HdrInt(0), TRUE, {})}

PagePass == \E resp \in PageResponses, body \in PageBodies : PagePassOf(resp, body)

PageInit == PureQuiet /\ rq = IdleRequest /\ SessQuiet /\ pg = IdlePages /\ sv = NoSurveys

PageNext == PageStart \/ PagePass

SpecPage == PageInit /\ [][PageNext]_vars

-----------------------------------------------------------------------------
(* The surveys held per ship (lines 503-504), the Survey button (lines     *)
(* 856-868) and the Use Survey button of a stored survey (lines 991-1014). *)
(* A survey is known by the number the server issued it under.             *)

Extend(list, new) == list \o new

PopFirst(list, idx) == SubSeq(list, 2, Len(list))

(* list.pop(idx), idx counted from 0.                                      *)
Pop(list, idx) == SubSeq(list, 1, idx) \o SubSeq(list, idx + 2, Len(list))

PoppedWhateverTheOutcome(lists, ship, idx, returned) == [lists EXCEPT ![ship] = Pop(@, idx)]

(* The lists after the try block of "Use Survey": the pop of line 1011     *)
(* follows api_extract inside the try, so an exception skips it.           *)
ListsAfterUse(lists, ship, idx, returned) ==
    IF returned THEN [lists EXCEPT ![ship] = Pop(@, idx)] ELSE lists

SurveyIdle == sv.cur.kind = "none" /\ rq.pc # "loop"

SurveyStart ==
    /\ Authenticated /\ SurveyIdle
    /\ \E ship \in Ships :
         /\ sv' = [sv EXCEPT !.cur = [NoHandler EXCEPT !.kind = "survey", !.ship = ship]]
         /\ rq' = NewRequest("POST", "survey", "none", DefaultRetries)
    /\ UNCHANGED <<pureVars, sessVars, pg>>

(* api_survey returns: the surveys of the response are appended to the     *)
(* ship's list when there are any; it raises: the error is shown.  The     *)
(* handler leaves the read cache alone either way.                         *)
SurveyPassOf(resp, k) ==
    /\ sv.cur.kind = "survey" /\ rq.pc = "loop"
    /\ sv.next + k - 1 <= MaxSurveys
    /\ LET r == request_pass(rq, resp)
           ship == sv.cur.ship
           new == [i \in 1..k |-> sv.next + i - 1]
       IN  IF r.pc = "loop"
           THEN rq' = r /\ UNCHANGED <<sv, hist>>
           ELSE /\ rq' = IdleRequest
                /\ hist' = Done("cmd", "api_survey", PyNone,
                                IF r.pc = "returned" THEN "ok" ELSE "err", r.nreq)
                /\ sv' = IF r.pc = "returned" /\ k > 0
                         THEN [sv EXCEPT !.lists[ship] = Extend(@, new),
                                         !.next = @ + k,
                                         !.issued = @ \cup {[ship |-> ship, id |-> sv.next + i - 1] : i \in 1..k},
                                         !.cur = NoHandler]
                         ELSE [sv EXCEPT !.cur = NoHandler]
    /\ UNCHANGED <<pureVars, token, cache, clock, op, pg>>

(* api_extract: body = {"survey": survey} if survey else {}.               *)
ExtractBody(survey) == IF survey # 0 THEN "survey" ELSE "none"

(* The "Extract" button of a ship (lines 841-854): api_extract(token, sym), *)
(* no survey.                                                               *)
ExtractStart ==
    /\ Authenticated /\ SurveyIdle
    /\ \E ship \in Ships :
         /\ sv' = [sv EXCEPT !.cur = [NoHandler EXCEPT !.kind = "extract", !.ship = ship]]
         /\ rq' = NewRequest("POST", "extract", ExtractBody(0), DefaultRetries)
    /\ UNCHANGED <<pureVars, sessVars, pg>>

(* api_extract(token, sym) returns: the yield is shown and the cache is    *)
(* cleared; it raises: the error and the cooldown are shown.  No line of   *)
(* the handler touches the stored surveys.                                 *)
ExtractPassOf(resp) ==
    /\ sv.cur.kind = "extract" /\ rq.pc = "loop"
    /\ LET r == request_pass(rq, resp)
       IN  IF r.pc = "loop"
           THEN rq' = r /\ UNCHANGED <<sv, cache, hist>>
           ELSE /\ rq' = IdleRequest
                /\ cache' = CacheAfterCommand("api_extract", r.pc = "returned", cache)
                /\ hist' = Done("cmd", "api_extract", PyNone,
                                IF r.pc = "returned" THEN "ok" ELSE "err", r.nreq)
                /\ sv' = [sv EXCEPT !.cur = NoHandler]
    /\ UNCHANGED <<pureVars, token, clock, op, pg>>

(* The button of the idx-th stored survey of a ship is pressed.  A stored  *)
(* survey is an object of the server's response, numbered from 1 here, so  *)
(* the body carries it.                                                    *)
UseSurveyStart ==
    /\ Authenticated /\ SurveyIdle
    /\ \E ship \in Ships :
         \E idx \in 0..(Len(sv.lists[ship]) - 1) :
             /\ sv' = [sv EXCEPT !.cur = [kind |-> "use", ship |-> ship, idx |-> idx,
                                          survey |-> sv.lists[ship][idx + 1]]]
             /\ rq' = NewRequest("POST", "extract", ExtractBody(sv.lists[ship][idx + 1]),
                                 DefaultRetries)
    /\ UNCHANGED <<pureVars, sessVars, pg>>

(* api_extract(token, sym, survey) returns: the cache is cleared and the   *)
(* survey is popped; it raises: the error is shown and the list is kept.   *)
UseSurveyPassOf(resp) ==
    /\ sv.cur.kind = "use" /\ rq.pc = "loop"
    /\ LET r == request_pass(rq, resp)
           ship == sv.cur.ship
       IN  IF r.pc = "loop"
           THEN rq' = r /\ UNCHANGED <<sv, cache, hist>>
           ELSE /\ rq' = IdleRequest
                /\ hist' = Done("cmd", "api_extract", PyNone,
                                IF r.pc = "returned" THEN "ok" ELSE "err", r.nreq)
                /\ cache' = CacheAfterCommand("api_extract", r.pc = "returned", cache)
                /\ sv' = [sv EXCEPT
                       !.lists = ListsAfterUse(@, ship, sv.cur.idx, r.pc = "returned"),
                       !.consumed = IF r.pc = "returned"
                                    THEN @ \cup {[ship |-> ship, id |-> sv.cur.survey]}
                                    ELSE @,
                       !.cur = NoHandler]
    /\ UNCHANGED <<pureVars, token, clock, op, pg>>

(* Time passes the expiration of a survey the server has issued.  No code  *)
(* looks at the expiration except to display it (lines 995-1001).          *)
Expire ==
    /\ \E e \in sv.issued :
         /\ e.id \notin sv.expired
         /\ sv' = [sv EXCEPT !.expired = @ \cup {e.id}]
    /\ UNCHANGED <<pureVars, rq, sessVars, pg>>

SurveyResponses ==
    {HttpResponse(200, HdrInt(2), HdrInt(0), TRUE, {}),
     HttpResponse(503, HdrInt(2), HdrInt(0), TRUE, {}),
     HttpResponse(400, HdrInt(2), HdrInt(0), TRUE, {})}

SurveyPass == \E resp \in SurveyResponses, k \in 0..MaxNewSurveys : SurveyPassOf(resp, k)

UseSurveyPass == \E resp \in SurveyResponses : UseSurveyPassOf(resp)

ExtractPass == \E resp \in SurveyResponses : ExtractPassOf(resp)

SurveyInit ==
    /\ PureQuiet /\ rq = IdleRequest /\ pg = IdlePages /\ sv = NoSurveys
    /\ token \in Tokens /\ cache = {} /\ clock = 0 /\ op = NoOp /\ hist = NoHist

SurveyNext ==
    \/ SurveyStart \/ SurveyPass
    \/ UseSurveyStart \/ UseSurveyPass
    \/ ExtractStart \/ ExtractPass
    \/ Expire

SpecSurvey == SurveyInit /\ [][SurveyNext]_vars

-----------------------------------------------------------------------------
(* The derived-value helpers humanize_timedelta (lines 75-89), parse_ts    *)
(* (lines 65-72) and travel_progress (lines 92-115).  A float of seconds   *)
(* is counted in halves of a second; a timestamp is a whole second.        *)

DigitChars == <<"0", "1", "2", "3", "4", "5", "6", "7", "8", "9">>

RECURSIVE Digits(_)
Digits(n) ==
    IF n < 10 THEN <<DigitChars[n + 1]>>
    ELSE Digits(n \div 10) \o <<DigitChars[(n % 10) + 1]>>

(* f"{n}" of an int.                                                       *)
Str(n) == IF n < 0 THEN <<"-">> \o Digits(-n) ELSE Digits(n)

(* int(x) of a float: towards zero.                                        *)
IntOf(halves) == IF halves >= 0 THEN halves \div 2 ELSE -((-halves) \div 2)

(* The em dash the helpers return for an unknown value.                    *)
Placeholder == <<"EM DASH">>

NoFloat == [kind |-> "none", halves |-> 0]
Float(halves) == [kind |-> "float", halves |-> halves]

HumanizeCarriesMinutes(delta_seconds) ==
    IF delta_seconds.kind = "none" THEN Placeholder
    ELSE LET seconds == IntOf(delta_seconds.halves)
             minutes == seconds \div 60
             sec == seconds % 60
         IN  IF seconds < 60 THEN Str(seconds) \o <<"s">>
             ELSE IF minutes < 60 THEN Str(minutes) \o <<"m", " ">> \o Str(sec) \o <<"s">>
             ELSE IF minutes \div 60 < 24
             THEN Str(minutes \div 60) \o <<"h", " ">> \o Str(minutes) \o <<"m">>
             ELSE Str((minutes \div 60) \div 24) \o <<"d", " ">>
                      \o Str(minutes \div 60) \o <<"h">>

humanize_timedelta(delta_seconds) ==
    IF delta_seconds.kind = "none" THEN Placeholder
    ELSE LET seconds == IntOf(delta_seconds.halves)
             minutes == seconds \div 60
             sec == seconds % 60
         IN  IF seconds < 60 THEN Str(seconds) \o <<"s">>
             ELSE IF minutes < 60 THEN Str(minutes) \o <<"m", " ">> \o Str(sec) \o <<"s">>
             ELSE IF minutes \div 60 < 24
             THEN Str(minutes \div 60) \o <<"h", " ">> \o Str(minutes % 60) \o <<"m">>
             ELSE Str((minutes \div 60) \div 24) \o <<"d", " ">>
                      \o Str((minutes \div 60) % 24) \o <<"h">>

(* A route timestamp as the payload gives it: missing, not ISO, ISO        *)
(* without a zone (parsed to a naive datetime) or ISO with one (aware).    *)
Timestamp(kind, t) == [kind |-> kind, t |-> t]

NoDatetime == [ok |-> FALSE, aware |-> FALSE, t |-> 0]

parse_ts(value) ==
    IF value.kind \in {"missing", "bad"} THEN NoDatetime
    ELSE [ok |-> TRUE, aware |-> value.kind = "aware", t |-> value.t]

NoFraction == <<0, 0>>

Outcome(raised, fraction, text) == [raised |-> raised, fraction |-> fraction, text |-> text]

(* a - b of two datetimes: TypeError unless both are naive or both aware.   *)
CanSubtract(a_aware, b_aware) == a_aware = b_aware

(* travel_progress with datetime.now(timezone.utc) = now, an aware         *)
(* datetime.  The fraction elapsed / total, clamped, is the pair           *)
(* <<numerator, total>>.                                                   *)
travel_progress(departureTime, arrival, now) ==
    LET dep == parse_ts(departureTime)
        arr == parse_ts(arrival)
        total == arr.t - dep.t
        elapsed == now - dep.t
        eta_seconds == arr.t - now
    IN  IF ~dep.ok \/ ~arr.ok THEN Outcome("none", NoFraction, Placeholder)
        ELSE IF ~CanSubtract(arr.aware, dep.aware) THEN Outcome("TypeError", NoFraction, <<>>)
        ELSE IF total <= 0 THEN Outcome("none", NoFraction, Placeholder)
        ELSE IF ~CanSubtract(TRUE, dep.aware) THEN Outcome("TypeError", NoFraction, <<>>)
        ELSE Outcome("none", <<Min(total, Max(0, elapsed)), total>>,
                     humanize_timedelta(Float(2 * (IF eta_seconds > 0 THEN eta_seconds ELSE 0))))

Moments == {0, 25, 100, 150}

Timestamps ==
    {Timestamp("missing", 0), Timestamp("bad", 0)}
        \cup {Timestamp(k, t) : k \in {"naive", "aware"}, t \in Moments}

DurationSamples == {45, 125, 3599, 3600, 7384, 86399, 86400, 100000}

Durations ==
    {NoFloat} \cup {Float(h) : h \in (-3)..(2 * MaxSeconds + 1)}
        \cup {Float(2 * s + e) : s \in DurationSamples, e \in {0, 1}}

DerivedInput(fn, departureTime, arrival, now, delta) ==
    [fn |-> fn, departureTime |-> departureTime, arrival |-> arrival, now |-> now,
     delta |-> delta]

DerivedInputs ==
    {DerivedInput("humanize_timedelta", Timestamp("missing", 0), Timestamp("missing", 0), 0, d) :
        d \in Durations}
    \cup {DerivedInput("travel_progress", dep, arr, now, NoFloat) :
            dep \in Timestamps, arr \in Timestamps, now \in Moments}

DerivedInit ==
    /\ pfn = "none" /\ pin \in DerivedInputs /\ pout = Outcome("none", NoFraction, <<>>)
    /\ rq = IdleRequest /\ SessQuiet /\ pg = IdlePages /\ sv = NoSurveys

ApplyHumanize ==
    /\ pfn = "none" /\ pin.fn = "humanize_timedelta"
    /\ pfn' = "humanize_timedelta"
    /\ pout' = Outcome("none", NoFraction, humanize_timedelta(pin.delta))
    /\ UNCHANGED <<pin, rq, sessVars, pg, sv>>

ApplyTravelProgress ==
    /\ pfn = "none" /\ pin.fn = "travel_progress"
    /\ pfn' = "travel_progress"
    /\ pout' = travel_progress(pin.departureTime, pin.arrival, pin.now)
    /\ UNCHANGED <<pin, rq, sessVars, pg, sv>>

DerivedNext == ApplyHumanize \/ ApplyTravelProgress

SpecDerived == DerivedInit /\ [][DerivedNext]_vars

-----------------------------------------------------------------------------
(* logistic_summary (lines 314-370): the classification of a system's      *)
(* waypoints.  Strings are sequences of characters.                        *)

Contains(sub, s) ==
    \E i \in 0..(Len(s) - Len(sub)) : SubSeq(s, i + 1, i + Len(sub)) = sub

MiningKeywords == {<<"A", "S", "T", "E", "R", "O", "I", "D">>, <<"M", "I", "N", "I", "N", "G">>}

MiningTraits ==
    {<<"C", "O", "M", "M", "O", "N", "_", "M", "E", "T", "A", "L", "_", "D", "E", "P", "O", "S", "I", "T", "S">>,
     <<"R", "A", "R", "E", "_", "M", "E", "T", "A", "L", "_", "D", "E", "P", "O", "S", "I", "T", "S">>,
     <<"P", "R", "E", "C", "I", "O", "U", "S", "_", "M", "E", "T", "A", "L", "_", "D", "E", "P", "O", "S", "I", "T", "S">>,
     <<"M", "I", "N", "E", "R", "A", "L", "_", "D", "E", "P", "O", "S", "I", "T", "S">>,
     <<"A", "S", "T", "E", "R", "O", "I", "D", "_", "F", "I", "E", "L", "D">>}

MARKETPLACE == <<"M", "A", "R", "K", "E", "T", "P", "L", "A", "C", "E">>
WAREHOUSE == <<"W", "A", "R", "E", "H", "O", "U", "S", "E">>
SHIPYARD == <<"S", "H", "I", "P", "Y", "A", "R", "D">>

Categories == <<"Mining sites", "Markets & delivery", "Warehouses", "Shipyards">>

(* An element of a waypoint's "traits": an object with a symbol (empty     *)
(* when it has none), a bare string, or something else.                    *)
Trait(form, symbol) == [form |-> form, symbol |-> symbol]

(* traits_for(wp): the symbols of the object traits that have one, and the *)
(* string traits, in order; "traits" missing or null gives none.           *)
traits_for(wp) ==
    LET kept == SelectSeq(wp.traits,
                          LAMBDA t : \/ t.form = "dict" /\ t.symbol # <<>>
                                     \/ t.form = "str")
    IN  [i \in 1..Len(kept) |-> kept[i].symbol]

(* wp_traits = {tr.upper() for tr in traits_for(wp)}                       *)
wp_traits(wp) == {Upper(traits_for(wp)[i]) : i \in 1..Len(traits_for(wp))}

(* t = (wp.get("type") or "").upper()                                      *)
TypeOf(wp) == IF wp.type.kind = "str" THEN Upper(wp.type.s) ELSE <<>>

MiningByTraitOnly(wp) == wp_traits(wp) \cap MiningTraits # {}

(* Lines 343-348: the test that puts a waypoint among the mining targets.  *)
IsMiningSite(wp) ==
    \/ \E keyword \in MiningKeywords : Contains(keyword, TypeOf(wp))
    \/ wp_traits(wp) \cap MiningTraits # {}

HasTraitLike(wp, name) == \E tr \in wp_traits(wp) : Contains(name, tr)

(* Lines 357-362: "MARKETPLACE" in wp_traits, and the like.                *)
HasTrait(wp, name) == name \in wp_traits(wp)

(* A coordinate as the payload gives it: missing, a number, or a value     *)
(* float() refuses (null, a non-numeric string).                           *)
Coordinate(kind, v) == [kind |-> kind, v |-> v]

(* float(a.get("x", 0)): a missing coordinate is 0.                        *)
CoordinateValue(c) == IF c.kind = "missing" THEN 0 ELSE c.v

(* round(math.hypot(dx, dy), 1), in tenths: the whole number of tenths     *)
(* nearest to the root (400 * d2 is even, so no tie arises).               *)
RoundedHypot(dx, dy) ==
    LET d2 == dx * dx + dy * dy
    IN  CHOOSE n \in 0..(10 * d2) :
            /\ n = 0 \/ (2 * n - 1) * (2 * n - 1) <= 400 * d2
            /\ 400 * d2 <= (2 * n + 1) * (2 * n + 1)

(* symbol_map.get(current_symbol): the position of the last waypoint of    *)
(* the listing that has the symbol, 0 for None; symbol 0 is a missing      *)
(* symbol, and current_symbol 0 is None.                                   *)
current_wp(waypoints, current_symbol) ==
    LET named == {i \in 1..Len(waypoints) :
                     waypoints[i].symbol # 0 /\ waypoints[i].symbol = current_symbol}
    IN  IF current_symbol = 0 \/ named = {} THEN 0
        ELSE CHOOSE i \in named : \A j \in named : j <= i

DistanceMissingIsNone(waypoints, current_symbol, wp) ==
    LET ref == current_wp(waypoints, current_symbol)
    IN  IF ref = 0 THEN PyNone
        ELSE LET a == waypoints[ref]
             IN  IF {a.x.kind, a.y.kind, wp.x.kind, wp.y.kind} # {"num"} THEN PyNone
                 ELSE PyInt(RoundedHypot(a.x.v - wp.x.v, a.y.v - wp.y.v))

(* waypoint_distance(current_wp, wp), then round(dist, 1) of build_entry:  *)
(* None or a number of tenths.                                             *)
waypoint_distance(waypoints, current_symbol, wp) ==
    LET ref == current_wp(waypoints, current_symbol)
    IN  IF ref = 0 THEN PyNone
        ELSE LET a == waypoints[ref]
             IN  IF "bad" \in {a.x.kind, a.y.kind, wp.x.kind, wp.y.kind} THEN PyNone
                 ELSE PyInt(RoundedHypot(CoordinateValue(a.x) - CoordinateValue(wp.x),
                                         CoordinateValue(a.y) - CoordinateValue(wp.y)))

(* build_entry(wp): symbol, type and distance (the traits text aside).     *)
build_entry(waypoints, current_symbol, wp) ==
    [symbol |-> wp.symbol, type |-> wp.type,
     distance |-> waypoint_distance(waypoints, current_symbol, wp)]

(* The entries of the waypoints chosen, in the order of the listing.       *)
Entries(waypoints, current_symbol, chosen) ==
    [i \in 1..Len(chosen) |-> build_entry(waypoints, current_symbol, chosen[i])]

logistic_summary(waypoints, current_symbol) ==
    LET Of(chosen) == Entries(waypoints, current_symbol, chosen)
    IN  Categories[1] :> Of(SelectSeq(waypoints, IsMiningSite))
            @@ Categories[2] :> Of(SelectSeq(waypoints, LAMBDA wp : HasTrait(wp, MARKETPLACE)))
            @@ Categories[3] :> Of(SelectSeq(waypoints, LAMBDA wp : HasTrait(wp, WAREHOUSE)))
            @@ Categories[4] :> Of(SelectSeq(waypoints, LAMBDA wp : HasTrait(wp, SHIPYARD)))

TypeSamples ==
    {PyNone, PyStr(<<"P", "L", "A", "N", "E", "T">>),
     PyStr(<<"A", "S", "T", "E", "R", "O", "I", "D", "_", "F", "I", "E", "L", "D">>),
     PyStr(<<"a", "s", "t", "e", "r", "o", "i", "d">>),
     PyStr(<<"O", "R", "B", "I", "T", "A", "L", "_", "M", "I", "N", "I", "N", "G", "_", "S", "T", "A", "T", "I", "O", "N">>)}

TraitSamples ==
    {<<>>,
     <<Trait("dict", MARKETPLACE)>>,
     <<Trait("dict", <<"m", "a", "r", "k", "e", "t", "p", "l", "a", "c", "e">>)>>,
     <<Trait("str", SHIPYARD), Trait("dict", MARKETPLACE)>>,
     <<Trait("dict", WAREHOUSE), Trait("other", <<>>)>>,
     <<Trait("dict", <<"M", "I", "N", "E", "R", "A", "L", "_", "D", "E", "P", "O", "S", "I", "T", "S">>), Trait("dict", <<>>)>>,
     <<Trait("dict", <<"B", "L", "A", "C", "K", "_", "M", "A", "R", "K", "E", "T", "P", "L", "A", "C", "E">>)>>,
     <<Trait("str", <<"A", "S", "T", "E", "R", "O", "I", "D", "_", "F", "I", "E", "L", "D">>), Trait("dict", SHIPYARD)>>}

(* Listings of up to MaxWaypoints waypoints; the symbol of a waypoint is   *)
(* its position in the listing.                                            *)
WaypointListings ==
    UNION {[1..n -> TypeSamples \X TraitSamples] : n \in 0..MaxWaypoints}

AsWaypoints(listing) ==
    [i \in 1..Len(listing) |->
        [symbol |-> i, type |-> listing[i][1], traits |-> listing[i][2],
         x |-> Coordinate("num", 0), y |-> Coordinate("num", 0)]]

LogisticInit ==
    /\ pfn = "none" /\ pout = <<>>
    /\ pin \in {[waypoints |-> AsWaypoints(l), current_symbol |-> 0] : l \in WaypointListings}
    /\ rq = IdleRequest /\ SessQuiet /\ pg = IdlePages /\ sv = NoSurveys

ApplyLogisticSummary ==
    /\ pfn = "none"
    /\ pfn' = "logistic_summary"
    /\ pout' = logistic_summary(pin.waypoints, pin.current_symbol)
    /\ UNCHANGED <<pin, rq, sessVars, pg, sv>>

LogisticNext == ApplyLogisticSummary

(* logistic_summary of listings of marketplaces that differ in symbol and  *)
(* coordinates, seen from a reference symbol.                              *)
Placed(symbol, x, y) ==
    [symbol |-> symbol, type |-> PyStr(<<"P", "L", "A", "N", "E", "T">>),
     traits |-> <<Trait("dict", MARKETPLACE)>>, x |-> x, y |-> y]

PlacedWaypoints ==
    {Placed(symbol, x, y) :
        symbol \in 0..2,
        x \in {Coordinate("missing", 0), Coordinate("bad", 0),
               Coordinate("num", 0), Coordinate("num", 3)},
        y \in {Coordinate("bad", 0), Coordinate("num", 0), Coordinate("num", 4),
               Coordinate("num", 1)}}

DistanceInit ==
    /\ pfn = "none" /\ pout = <<>>
    /\ pin \in {[waypoints |-> l, current_symbol |-> c] :
                  l \in UNION {[1..n -> PlacedWaypoints] : n \in 0..MaxWaypoints},
                  c \in 0..3}
    /\ rq = IdleRequest /\ SessQuiet /\ pg = IdlePages /\ sv = NoSurveys

SpecDistance == DistanceInit /\ [][LogisticNext]_vars

SpecLogistic == LogisticInit /\ [][LogisticNext]_vars

-----------------------------------------------------------------------------
(* The pure helpers, applied to inputs drawn from bounded sets.            *)

PureInit ==
    /\ pfn = "none"
    /\ pin \in SymbolInputs \cup {PyInt(a) : a \in 0..MaxAttempt}
    /\ pout = <<>>
    /\ rq = IdleRequest
    /\ token = NoToken /\ cache = {} /\ clock = 0 /\ op = NoOp /\ hist = NoHist
    /\ pg = IdlePages
    /\ sv = NoSurveys

IsAttemptInput(v) == v.kind = "int"

ApplyNormalize ==
    /\ pfn = "none" /\ ~IsAttemptInput(pin)
    /\ pfn' = "normalize_symbol"
    /\ pout' = normalize_symbol(pin)
    /\ UNCHANGED <<pin, rq, sessVars, pg, sv>>

ApplySystemSymbol ==
    /\ pfn = "none" /\ ~IsAttemptInput(pin)
    /\ pfn' = "system_symbol_from_waypoint"
    /\ pout' = system_symbol_from_waypoint(pin)
    /\ UNCHANGED <<pin, rq, sessVars, pg, sv>>

ApplyBackoff ==
    /\ pfn = "none" /\ IsAttemptInput(pin)
    /\ pfn' = "backoff"
    /\ pout' = <<backoff(pin.n)>>
    /\ UNCHANGED <<pin, rq, sessVars, pg, sv>>

PureNext == ApplyNormalize \/ ApplySystemSymbol \/ ApplyBackoff

SpecPure == PureInit /\ [][PureNext]_vars

-----------------------------------------------------------------------------
(* STClient.request called directly, against every sequence of responses.  *)

Methods == {"GET", "POST", "PATCH"}

(* get(path, **kw) / post(path, **kw) / patch(path, **kw): the method and  *)
(* the query parameters of a call.                                         *)
Calls == {<<"GET", "none">>, <<"GET", "page=1">>, <<"POST", "none">>, <<"PATCH", "none">>}

ReqInit == PureQuiet /\ rq = IdleRequest /\ SessQuiet /\ pg = IdlePages /\ sv = NoSurveys

ReqStart ==
    /\ rq.pc # "loop"
    /\ \E call \in Calls, retries \in 0..MaxRetries :
           rq' = NewRequestWith(call[1], "/my/agent", call[2],
                                IF call[1] = "GET" THEN "none" ELSE "body", retries)
    /\ UNCHANGED <<pureVars, sessVars, pg, sv>>

ReqPass ==
    /\ rq.pc = "loop"
    /\ \E resp \in Responses : rq' = request_pass(rq, resp)
    /\ UNCHANGED <<pureVars, sessVars, pg, sv>>

ReqNext == ReqStart \/ ReqPass

SpecReq == ReqInit /\ [][ReqNext]_vars


-----------------------------------------------------------------------------
(* Claims about STClient.request, under SpecReq.                           *)

HasSleep(why) == \E i \in 1..Len(rq.slept) : rq.slept[i].why = why

(* C1: with a retry budget R, a call whose every response has a retryable  *)
(* status fails after exactly R + 1 HTTP requests (5 for the budget 4): it *)
(* has not failed before the (R+1)-th, and no call ever sends an (R+2)-th. *)
RetryBudget ==
    /\ rq.nreq <= rq.retries + 1
    /\ rq.pc = "loop" => rq.nreq <= rq.retries
    /\ (rq.allRetryable /\ rq.nreq >= 1 /\ rq.nreq <= rq.retries) => rq.pc = "loop"
    /\ (rq.allRetryable /\ rq.nreq = rq.retries + 1) =>
           rq.pc = "raised" /\ rq.exc = "RuntimeError"

RetryBudgetWitness ==
    /\ rq.pc = "raised" /\ rq.allRetryable
    /\ rq.retries = 4 /\ rq.nreq = 5 /\ rq.last.status = 503

(* C4: a response whose status is neither 2xx nor retryable makes the call *)
(* fail at once: raised, no further request, no backoff.                   *)
ImmediateFailure ==
    (rq.last.kind = "http" /\ ~IsSuccessStatus(rq.last.status)
        /\ rq.last.status \notin Retryable) =>
    (rq.pc = "raised" /\ ~HasSleep("backoff"))

-----------------------------------------------------------------------------
(* Claims about the pure helpers, under SpecPure.                          *)

DashCount(s) == Cardinality({i \in 1..Len(s) : s[i] = "-"})

IsPrefixAtDash(p, s) ==
    /\ Len(p) <= Len(s)
    /\ p = SubSeq(s, 1, Len(p))
    /\ Len(p) = Len(s) \/ s[Len(p) + 1] = "-"

(* A waypoint symbol that embeds no system prefix: not a string, or one of *)
(* its first two dash-delimited segments is missing or empty.              *)
Malformed(symbol) ==
    LET parts == Split(normalize_symbol(symbol))
    IN  Len(parts) < 2 \/ parts[1] = <<>> \/ parts[2] = <<>>

(* C9, as claimed: every malformed waypoint symbol yields the empty system *)
(* symbol.                                                                 *)
MalformedYieldsEmpty ==
    (pfn = "system_symbol_from_waypoint" /\ Malformed(pin)) => pout = <<>>

(* C9, amended: the result is the first two dash-delimited segments of the *)
(* stripped, upper-cased symbol joined by a dash ("X1-ABC-DEF" gives       *)
(* "X1-ABC"), and it is empty exactly when that normalised symbol holds no *)
(* dash (or the input is no string).                                       *)
SystemDerivation ==
    pfn = "system_symbol_from_waypoint" =>
        LET n == normalize_symbol(pin)
        IN  /\ DashCount(n) = 0 <=> pout = <<>>
            /\ DashCount(n) >= 1 => (DashCount(pout) = 1 /\ IsPrefixAtDash(pout, n))
            /\ pin = PyStr(<<"X", "1", "-", "A", "B", "C", "-", "D", "E", "F">>)
                   => pout = <<"X", "1", "-", "A", "B", "C">>

SystemDerivationWitness ==
    /\ pfn = "system_symbol_from_waypoint"
    /\ pin = PyStr(<<"X", "1", "-", "A", "B", "C", "-", "D", "E", "F">>)
    /\ pout = <<"X", "1", "-", "A", "B", "C">>

(* C10: backoff is non-decreasing over the attempts 1..N, its exponential  *)
(* term never exceeds 30 s, backoff(1) <= 2.05 s and backoff(10) = 30.5 s. *)
BackoffMonotone ==
    (pfn = "backoff" /\ pin.n >= 1) =>
        /\ pout[1] <= backoff(pin.n + 1)
        /\ pout[1] - pin.n <= 30 * 20
        /\ pin.n = 1 => pout[1] <= 41
        /\ pin.n = 10 => pout[1] = 610

BackoffMonotoneWitness == pfn = "backoff" /\ pin.n = 10 /\ pout = <<610>>

-----------------------------------------------------------------------------
(* Claims about the session, under Spec.                                   *)

CommandAccessors == (Commands \ {"api_nav_status"}) \cup {"api_nav"}

(* C2: after any successful command accessor call the read cache holds no  *)
(* entry (so the next read calls through).                                 *)
CommandClearsCache ==
    (hist.name \in CommandAccessors /\ hist.outcome = "ok") => cache = {}

(* The freshness windows the specification gives, in seconds.              *)
Window(acc) ==
    CASE acc \in {"api_my_agent", "api_my_contracts"} -> 60
      [] acc = "api_my_ships" -> 30
      [] acc = "api_market" -> 120
      [] acc \in {"api_systems", "api_waypoints", "api_shipyard"} -> 300

(* This step is a call of the read accessor that hist records, with the    *)
(* same arguments.                                                         *)
CallsSameAgain ==
    /\ hist.kind = "read" /\ op.kind = "none" /\ token' = token /\ hist.tok = token
    /\ \/ op'.kind = "read" /\ op'.name = hist.name /\ op'.arg = hist.arg
       \/ /\ op'.kind = "none" /\ hist' # hist /\ hist'.kind = "read"
          /\ hist'.name = hist.name /\ hist'.arg = hist.arg

(* C3, as claimed: of two calls of a read accessor with the same arguments *)
(* within the freshness window (no cache clear between them), the first    *)
(* issues exactly one network call and the second none: it returns the     *)
(* stored payload.                                                         *)
TwoCallsOneNetworkCall ==
    [][(CallsSameAgain /\ hist.outcome \in {"ok", "err"}
            /\ clock - hist.at < Window(hist.name))
        => (hist.net = 1 /\ hist'.outcome = "hit" /\ hist'.net = 0)]_vars

(* A payload served from the cache is younger than its window.             *)
ServedFresh ==
    (hist.kind = "read" /\ hist.outcome = "hit") =>
        /\ hist.net = 0
        /\ hist.age < Window(hist.name)
        /\ \E e \in cache : e.key = Key(hist.name, hist.tok, hist.arg) /\ e.at = hist.at

(* A call that raised stored nothing.                                      *)
FailedReadStoresNothing ==
    (hist.kind = "read" /\ hist.outcome \in {"err", "invalid"}) =>
        \A e \in Cached(Key(hist.name, hist.tok, hist.arg)) : e.at < hist.at \/ hist.at = 0

(* The second call after one that returned a payload.                      *)
SecondCallWithinWindow ==
    (CallsSameAgain /\ hist.outcome \in {"ok", "hit"}) =>
        IF clock - hist.at < Window(hist.name)
        THEN /\ hist'.outcome = "hit" /\ hist'.at = hist.at
             /\ rq' = rq /\ op' = op /\ cache' = cache
        ELSE /\ op'.kind = "read" /\ rq'.pc = "loop" /\ rq'.nreq = 0

(* C3, amended: once a call of a read accessor has returned a payload, a   *)
(* further call with the same arguments less than the window after the     *)
(* payload was stored (no cache clear between) sends no request and        *)
(* returns the stored payload, and one made when the window has elapsed    *)
(* calls through again; a payload served from the cache is always younger  *)
(* than its window (agent 60 s, ships 30 s, contracts 60 s, systems 300 s, *)
(* waypoints 300 s, market 120 s, shipyard 300 s).  A call that raised     *)
(* stored nothing.                                                         *)
CacheFreshness ==
    /\ [](ServedFresh /\ FailedReadStoresNothing)
    /\ [][SecondCallWithinWindow]_vars

CacheFreshnessWitness ==
    /\ hist.kind = "read" /\ hist.name = "api_my_agent" /\ hist.outcome = "hit"
    /\ hist.age = 30

(* C6, as claimed: when the first body is rejected with an error naming a  *)
(* "course" or a "destination" field, the course-wrapped body is sent.     *)
FallbackOnCourseOrDestination ==
    (hist.kind = "nav" /\ hist.first.exc = "RuntimeError"
        /\ hist.first.err.names \cap
               {"'course'", "\"course\"", "course.destination", "'destination'"} # {})
    => hist.bodies = <<"waypointSymbol", "course">>

(* C6, amended: api_nav first sends {waypointSymbol: W}; it sends the      *)
(* course-wrapped body, once, exactly when that request raised the         *)
(* RuntimeError of an HTTP failure whose text holds 'course', "course" or  *)
(* course.destination, and then the outcome is the second request's; in    *)
(* every other case (an error naming only a destination field among them)  *)
(* the first outcome is the call's and no second body is sent.             *)
NavigateFallback ==
    (hist.kind = "nav" /\ hist.outcome # "invalid") =>
        /\ Len(hist.bodies) \in {1, 2}
        /\ hist.bodies[1] = "waypointSymbol"
        /\ Len(hist.bodies) = 2 <=>
               /\ hist.first.exc = "RuntimeError"
               /\ hist.first.err.names \cap
                      {"'course'", "\"course\"", "course.destination"} # {}
        /\ Len(hist.bodies) = 2 => hist.bodies[2] = "course"
        /\ Len(hist.bodies) = 1 => hist.final = hist.first
        /\ hist.outcome = "ok" <=> hist.final.exc = "none"
        /\ hist.outcome = "ok" => cache = {}

NavigateFallbackWitness ==
    /\ hist.kind = "nav" /\ hist.outcome = "ok"
    /\ hist.bodies = <<"waypointSymbol", "course">>
    /\ hist.first.err.names = {"\"course\""}

OnlySpaces(v) == v.kind = "str" /\ \A i \in 1..Len(v.s) : v.s[i] = " "

(* Which calls are rejected, and what a rejected call has done.            *)
RejectedWhenInvalid ==
    /\ hist.kind = "nav" =>
           (hist.outcome = "invalid" <=> (hist.arg.kind # "str" \/ OnlySpaces(hist.arg)))
    /\ (hist.kind = "read" /\ hist.name \in {"api_market", "api_shipyard"}
           /\ DashCount(normalize_symbol(hist.arg)) = 0) => hist.outcome = "invalid"
    /\ hist.outcome = "invalid" => (hist.net = 0 /\ op.kind = "none" /\ rq.pc = "idle")

(* The step that rejects a call changes nothing else.                      *)
RejectedWithoutEffect ==
    (hist'.outcome = "invalid" /\ hist' # hist) =>
        (cache' = cache /\ rq' = rq /\ rq.pc = "idle" /\ op' = op /\ op.kind = "none")

(* C8: a local precondition failure is raised before any request is made   *)
(* and leaves the cache as it was: api_nav with an empty, whitespace-only  *)
(* or non-string waypoint symbol, and api_market / api_shipyard whenever   *)
(* the system symbol derived from the waypoint symbol is empty.            *)
ValidationBeforeNetwork == []RejectedWhenInvalid /\ [][RejectedWithoutEffect]_vars

ValidationBeforeNetworkWitness ==
    /\ hist.kind = "read" /\ hist.name = "api_market" /\ hist.outcome = "invalid"
    /\ hist.arg = PyStr(<<"A">>) /\ cache # {}

-----------------------------------------------------------------------------
(* Claims about fetch_system_waypoints, under SpecPage.                    *)

RECURSIVE ReportedMax(_, _)
ReportedMax(seen, j) ==
    IF j = 0 THEN 1
    ELSE LET m == ReportedMax(seen, j - 1)
         IN  IF seen[j].total.h = "int" /\ seen[j].total.v > m THEN seen[j].total.v ELSE m

RECURSIVE InPageOrder(_, _)
InPageOrder(seen, j) ==
    IF j = 0 THEN <<>>
    ELSE InPageOrder(seen, j - 1) \o [i \in 1..seen[j].count |-> [page |-> j, idx |-> i]]

(* Page j is where the listing has to stop.                                *)
StopAt(j) ==
    \/ pg.seen[j].count = 0
    \/ j >= pg.max_pages
    \/ j >= ReportedMax(pg.seen, j)

(* C7: the pages 1, 2, 3, ... are requested in increasing order; the call  *)
(* goes on past a page exactly when that page held items and neither the   *)
(* total-page count reported so far nor max_pages is reached, and it       *)
(* returns the items of the pages fetched, concatenated in page order.     *)
PaginationStops ==
    LET k == Len(pg.seen)
    IN  /\ pg.pc = "loop" =>
               /\ pg.asked = [j \in 1..(k + 1) |-> j]
               /\ \A j \in 1..k : ~StopAt(j)
        /\ pg.pc = "returned" =>
               /\ k >= 1 /\ pg.asked = [j \in 1..k |-> j]
               /\ StopAt(k)
               /\ \A j \in 1..(k - 1) : ~StopAt(j)
               /\ pg.waypoints = InPageOrder(pg.seen, k)

PaginationStopsWitness ==
    /\ pg.pc = "returned" /\ Len(pg.seen) = 3 /\ pg.max_pages = 5
    /\ \A j \in 1..3 : pg.seen[j] = [count |-> 2, total |-> HdrInt(3)]
    /\ Len(pg.waypoints) = 6

-----------------------------------------------------------------------------
(* STClient.request under a scheduler that lets the call in progress run:  *)
(* each pass ends, since the HTTP request has a timeout and every sleep is *)
(* finite.                                                                 *)

LiveResponses ==
    {NetFailure} \cup
    {HttpResponse(st, rem, HdrInt(0), j, {}) :
        st \in Statuses, rem \in {HdrInt(1), HdrInt(2)}, j \in BOOLEAN}

LivePass ==
    /\ rq.pc = "loop"
    /\ \E resp \in LiveResponses : rq' = request_pass(rq, resp)
    /\ UNCHANGED <<pureVars, sessVars, pg, sv>>

LiveNext == ReqStart \/ LivePass

SpecReqLive == ReqInit /\ [][LiveNext]_vars /\ WF_vars(LivePass)

Terminal == rq.pc \in {"returned", "raised"}

(* C11: whatever the responses, a call of STClient.request in progress     *)
(* eventually has returned a payload or raised an error, and it has sent   *)
(* at most retries + 1 HTTP requests by then.                              *)
Termination ==
    /\ [](rq.nreq <= rq.retries + 1)
    /\ [](rq.nreq = rq.retries + 1 => Terminal)
    /\ (rq.pc = "loop") ~> Terminal

TerminationWitness ==
    /\ rq.pc = "returned" /\ rq.retries = 4 /\ rq.nreq = 5 /\ rq.attempt = 4

-----------------------------------------------------------------------------
(* Further claims about STClient.request, under SpecReq.                   *)

MalformedHeaders(resp) ==
    resp.kind = "http" /\ (resp.remaining.h = "bad" \/ resp.reset.h = "bad")

(* The same response with rate-limit headers that ask for no throttling.   *)
Unthrottled(resp) == [resp EXCEPT !.remaining = HdrInt(2), !.reset = HdrInt(0)]

(* After a response with a malformed rate-limit header: no throttle sleep, *)
(* and the status alone has decided what the call did.                     *)
MalformedHeadersNoSleep ==
    MalformedHeaders(rq.last) =>
        /\ ~HasSleep("throttle")
        /\ (IsSuccessStatus(rq.last.status) /\ rq.last.json) => rq.pc = "returned"
        /\ (rq.last.status \in Retryable /\ rq.nreq <= rq.retries) =>
               (rq.pc = "loop" /\ rq.slept = <<Sleep("backoff", backoff(rq.attempt))>>)
        /\ (rq.last.status \in Retryable /\ rq.nreq > rq.retries) =>
               (rq.pc = "raised" /\ rq.exc = "RuntimeError")
        /\ rq.last.status \in {400, 404} => (rq.pc = "raised" /\ rq.exc = "RuntimeError")

(* A pass that receives such a response leaves the call exactly where the  *)
(* same response with well-formed, unthrottling headers would.             *)
MalformedHeadersSameOutcome ==
    (rq.pc = "loop" /\ rq' # rq /\ MalformedHeaders(rq'.last)) =>
        [rq' EXCEPT !.last = NoResponse] =
            [request_pass(rq, Unthrottled(rq'.last)) EXCEPT !.last = NoResponse]

(* C12: when the remaining-quota or the reset-delay header is no integer,  *)
(* the governor does not sleep and the call's outcome (payload on 2xx,     *)
(* retry or failure otherwise) is what it would be with no throttling.     *)
MalformedHeadersHarmless ==
    []MalformedHeadersNoSleep /\ [][MalformedHeadersSameOutcome]_vars

MalformedHeadersHarmlessWitness ==
    /\ rq.pc = "returned" /\ rq.last.status = 200 /\ rq.nreq = 2
    /\ rq.last.remaining = HdrInt(0) /\ rq.last.reset = HdrBad
    /\ rq.slept = <<>>

-----------------------------------------------------------------------------
(* Claims about the stored surveys, under SpecSurvey.                      *)

Held(ship) == {sv.lists[ship][i] : i \in 1..Len(sv.lists[ship])}

Unconsumed(ship) ==
    {e.id : e \in {x \in sv.issued : x.ship = ship /\ x \notin sv.consumed}}

(* C13, as claimed: no survey that has expired is held in a ship's list.   *)
HeldOnlyUnexpired == \A ship \in Ships : Held(ship) \cap sv.expired = {}

(* A ship's list holds, once each and in the order issued, the surveys a   *)
(* successful survey command returned for it and no successful extraction  *)
(* has consumed.                                                           *)
HeldIffUnconsumed ==
    \A ship \in Ships :
        /\ Held(ship) = Unconsumed(ship)
        /\ Cardinality(Held(ship)) = Len(sv.lists[ship])

(* A list shrinks only when an extraction referencing one of its surveys   *)
(* succeeds, and then by that survey alone.                                *)
RemovesOnlyTheSurveyUsed ==
    \A ship \in Ships :
        sv'.lists[ship] # sv.lists[ship] =>
            \/ /\ sv.cur.kind = "use" /\ sv.cur.ship = ship
               /\ Held(ship) \ {sv'.lists[ship][i] : i \in 1..Len(sv'.lists[ship])}
                      = {sv.cur.survey}
               /\ Len(sv'.lists[ship]) = Len(sv.lists[ship]) - 1
               /\ cache' = {}
            \/ /\ sv.cur.kind = "survey" /\ sv.cur.ship = ship
               /\ SubSeq(sv'.lists[ship], 1, Len(sv.lists[ship])) = sv.lists[ship]

(* C13, amended: a survey is held in ship S's list exactly when a          *)
(* successful survey command for S returned it and no successful           *)
(* extraction command referencing it has happened since (which removes     *)
(* that survey, and only that survey, from S's list); expiry removes       *)
(* nothing.                                                                *)
SurveyLifecycle == []HeldIffUnconsumed /\ [][RemovesOnlyTheSurveyUsed]_vars

SurveyLifecycleWitness ==
    /\ sv.lists["SHIP-1"] = <<1, 3>> /\ [ship |-> "SHIP-1", id |-> 2] \in sv.consumed
    /\ 1 \in sv.expired /\ sv.cur.kind = "none"

FailedOnStatus ==
    rq.pc = "raised" /\ rq.last.kind = "http" /\ RaisesForStatus(rq.last.status)

(* C14, as claimed: the error of a failure on a status carries the status, *)
(* the method, the path and what the body of the last response says: its   *)
(* parsed payload, or its raw text when it does not parse.                 *)
ErrorCarriesBody ==
    FailedOnStatus =>
        /\ rq.err.status = rq.last.status
        /\ rq.err.method = rq.method /\ rq.err.path = rq.path
        /\ rq.err.names = rq.last.names

(* C14, amended: every failure of STClient.request on a non-retryable 4xx  *)
(* or 5xx status or on an exhausted retry budget is a RuntimeError that    *)
(* carries the status of the last response, the method, the path and the   *)
(* parsed payload of that response; when the body does not parse it        *)
(* carries the text of the HTTPError instead, and nothing of the body.     *)
ErrorContent ==
    /\ FailedOnStatus =>
           /\ rq.exc = "RuntimeError"
           /\ rq.err.status = rq.last.status
           /\ rq.err.method = rq.method /\ rq.err.path = rq.path
           /\ rq.err.parsed = rq.last.json
           /\ rq.last.json => rq.err.names = rq.last.names
           /\ ~rq.last.json => rq.err.names = {}
    /\ (rq.pc = "raised" /\ rq.exc = "RuntimeError") => FailedOnStatus
    /\ rq.exc # "RuntimeError" => rq.err = NoError

ErrorContentWitness ==
    /\ FailedOnStatus /\ rq.last.status = 503 /\ rq.nreq = 5 /\ rq.method = "POST"
    /\ ~rq.last.json /\ rq.last.names = {"'course'"} /\ rq.err.names = {}

(* Every request of the call so far is the one the caller asked for.       *)
EveryRequestTheSame ==
    /\ Len(rq.sent) = rq.nreq
    /\ \A i \in 1..Len(rq.sent) :
           rq.sent[i] = [method |-> rq.method, path |-> rq.path,
                         params |-> rq.params, body |-> rq.body]

(* A pass does for any method what it does for a GET.                      *)
AsGet(r) ==
    [r EXCEPT !.method = "GET", !.body = "none", !.sent = <<>>,
              !.err = [@ EXCEPT !.method = "GET"]]

SamePolicyForEveryMethod ==
    (rq.pc = "loop" /\ rq'.pc # "idle" /\ rq'.nreq = rq.nreq + 1) =>
        AsGet(rq') = AsGet(request_pass(AsGet(rq), rq'.last))

(* C15: every retry of STClient.request sends the method, path, query      *)
(* parameters and body of the first attempt again, and the retry policy    *)
(* does not depend on the method, so a POST or PATCH may be submitted up   *)
(* to retries + 1 times.                                                   *)
IdenticalRetries == []EveryRequestTheSame /\ [][SamePolicyForEveryMethod]_vars

IdenticalRetriesWitness ==
    /\ rq.method = "POST" /\ rq.body = "body" /\ rq.retries = 4 /\ Len(rq.sent) = 5
    /\ \A i \in 1..5 : rq.sent[i].method = "POST" /\ rq.sent[i].body = "body"

-----------------------------------------------------------------------------
(* Claims about the derived-value helpers, under SpecDerived.              *)

BothParse == parse_ts(pin.departureTime).ok /\ parse_ts(pin.arrival).ok

(* C16: when departure and arrival both parse and arrival > departure,     *)
(* travel_progress returns the fraction clamp((now - departure) /          *)
(* (arrival - departure), 0, 1): 0 for now <= departure, 1 for now >=      *)
(* arrival (with ETA "0s"), and 0.25 for departure 0, arrival 100, now 25. *)
TravelFraction ==
    (pfn = "travel_progress" /\ BothParse /\ pin.arrival.t > pin.departureTime.t) =>
        LET dep == pin.departureTime.t
            arr == pin.arrival.t
            num == pout.fraction[1]
            den == pout.fraction[2]
        IN  /\ pout.raised = "none"
            /\ den = arr - dep /\ 0 <= num /\ num <= den
            /\ (dep < pin.now /\ pin.now < arr) => num = pin.now - dep
            /\ pin.now <= dep => num = 0
            /\ pin.now >= arr => (num = den /\ pout.text = <<"0", "s">>)
            /\ (dep = 0 /\ arr = 100 /\ pin.now = 25) => 4 * num = den

WholeSeconds == pin.delta.kind = "float" /\ pin.delta.halves >= 0 /\ pin.delta.halves % 2 = 0

(* C17: for a non-negative whole number s of seconds humanize_timedelta    *)
(* returns "Ns" if s < 60, "Mm Ss" if s < 3600, "Hh Mm" if s < 86400,      *)
(* else "Dd Hh", the numbers being the quotients and remainders of s (45   *)
(* gives "45s", 125 "2m 5s", 7384 "2h 3m", 100000 "1d 3h"); an absent      *)
(* input gives the placeholder.                                            *)
HumanizedDuration ==
    pfn = "humanize_timedelta" =>
        LET s == pin.delta.halves \div 2
        IN  /\ pin.delta.kind = "none" => pout.text = Placeholder
            /\ (WholeSeconds /\ s < 60) => pout.text = Str(s) \o <<"s">>
            /\ (WholeSeconds /\ 60 <= s /\ s < 3600) =>
                   pout.text = Str(s \div 60) \o <<"m", " ">> \o Str(s % 60) \o <<"s">>
            /\ (WholeSeconds /\ 3600 <= s /\ s < 86400) =>
                   pout.text = Str(s \div 3600) \o <<"h", " ">>
                                   \o Str((s % 3600) \div 60) \o <<"m">>
            /\ (WholeSeconds /\ 86400 <= s) =>
                   pout.text = Str(s \div 86400) \o <<"d", " ">>
                                   \o Str((s % 86400) \div 3600) \o <<"h">>
            /\ pin.delta = Float(2 * 45) => pout.text = <<"4", "5", "s">>
            /\ pin.delta = Float(2 * 125) => pout.text = <<"2", "m", " ", "5", "s">>
            /\ pin.delta = Float(2 * 7384) => pout.text = <<"2", "h", " ", "3", "m">>
            /\ pin.delta = Float(2 * 100000) => pout.text = <<"1", "d", " ", "3", "h">>

HumanizedDurationWitness ==
    /\ pfn = "humanize_timedelta" /\ pin.delta = Float(2 * 100000)
    /\ pout.text = <<"1", "d", " ", "3", "h">>

-----------------------------------------------------------------------------
(* Claims about logistic_summary, under SpecLogistic.                      *)

SymbolsIn(category) == {pout[category][i].symbol : i \in 1..Len(pout[category])}

(* The upper-cased trait symbols of a waypoint, read off the input.        *)
TraitSet(wp) ==
    {Upper(wp.traits[i].symbol) :
        i \in {j \in 1..Len(wp.traits) :
                  wp.traits[j].form = "str"
                      \/ (wp.traits[j].form = "dict" /\ wp.traits[j].symbol # <<>>)}}

(* C18: a waypoint is among the "Mining sites" if and only if its type     *)
(* (letter case aside) contains ASTEROID or MINING, or its trait set       *)
(* intersects the four deposit traits and ASTEROID_FIELD; a waypoint of    *)
(* type ASTEROID_FIELD without traits is a mining site.                    *)
MiningClassification ==
    pfn = "logistic_summary" =>
        \A i \in 1..Len(pin.waypoints) :
            LET wp == pin.waypoints[i]
                t == IF wp.type.kind = "str" THEN Upper(wp.type.s) ELSE <<>>
            IN  /\ i \in SymbolsIn("Mining sites") <=>
                       \/ Contains(<<"A", "S", "T", "E", "R", "O", "I", "D">>, t)
                       \/ Contains(<<"M", "I", "N", "I", "N", "G">>, t)
                       \/ TraitSet(wp) \cap MiningTraits # {}
                /\ (wp.type = PyStr(<<"A", "S", "T", "E", "R", "O", "I", "D", "_", "F", "I", "E", "L", "D">>)
                        /\ wp.traits = <<>>) => i \in SymbolsIn("Mining sites")
                /\ (wp.type = PyStr(<<"P", "L", "A", "N", "E", "T">>)
                        /\ wp.traits = <<Trait("dict", MARKETPLACE)>>)
                       => i \notin SymbolsIn("Mining sites")

MiningClassificationWitness ==
    /\ pfn = "logistic_summary" /\ Len(pin.waypoints) = 2
    /\ pin.waypoints[1].type = PyStr(<<"A", "S", "T", "E", "R", "O", "I", "D", "_", "F", "I", "E", "L", "D">>)
    /\ pin.waypoints[1].traits = <<>>
    /\ pin.waypoints[2].type = PyStr(<<"P", "L", "A", "N", "E", "T">>)
    /\ pin.waypoints[2].traits = <<Trait("dict", MARKETPLACE)>>
    /\ SymbolsIn("Mining sites") = {1}

(* C19: the summary always has exactly the four categories Mining sites,   *)
(* Markets & delivery, Warehouses and Shipyards; a waypoint is in Markets  *)
(* & delivery / Warehouses / Shipyards if and only if its trait set holds  *)
(* the very trait MARKETPLACE / WAREHOUSE / SHIPYARD, each category on its *)
(* own, so a waypoint with MARKETPLACE and SHIPYARD is in both; within a   *)
(* category the waypoints keep the order of the listing.                   *)
FixedCategories ==
    pfn = "logistic_summary" =>
        /\ DOMAIN pout = {"Mining sites", "Markets & delivery", "Warehouses", "Shipyards"}
        /\ \A i \in 1..Len(pin.waypoints) :
               /\ i \in SymbolsIn("Markets & delivery") <=> <<"M", "A", "R", "K", "E", "T", "P", "L", "A", "C", "E">> \in TraitSet(pin.waypoints[i])
               /\ i \in SymbolsIn("Warehouses") <=> <<"W", "A", "R", "E", "H", "O", "U", "S", "E">> \in TraitSet(pin.waypoints[i])
               /\ i \in SymbolsIn("Shipyards") <=> <<"S", "H", "I", "P", "Y", "A", "R", "D">> \in TraitSet(pin.waypoints[i])
        /\ \A c \in DOMAIN pout :
               \A i, j \in 1..Len(pout[c]) : i < j => pout[c][i].symbol < pout[c][j].symbol

FixedCategoriesWitness ==
    /\ pfn = "logistic_summary" /\ Len(pin.waypoints) = 2
    /\ pin.waypoints[1].traits = <<Trait("str", SHIPYARD), Trait("dict", MARKETPLACE)>>
    /\ pin.waypoints[2].traits = <<Trait("dict", <<"B", "L", "A", "C", "K", "_", "M", "A", "R", "K", "E", "T", "P", "L", "A", "C", "E">>)>>
    /\ SymbolsIn("Markets & delivery") = {1} /\ SymbolsIn("Shipyards") = {1}
    /\ SymbolsIn("Warehouses") = {}

-----------------------------------------------------------------------------
(* A further claim about fetch_system_waypoints, under SpecPage.           *)

(* The bound is the largest totalPages reported so far, 1 at least.        *)
BoundIsLargestReported ==
    pg.pc \in {"loop", "returned"} =>
        /\ pg.total_pages = ReportedMax(pg.seen, Len(pg.seen))
        /\ pg.total_pages >= 1
        /\ \A j \in 1..Len(pg.seen) :
               pg.seen[j].total.h = "int" => pg.total_pages >= pg.seen[j].total.v
        /\ pg.pc = "loop" => pg.page <= pg.total_pages
        /\ (pg.pc = "returned" /\ pg.seen[Len(pg.seen)].count > 0
                /\ Len(pg.seen) < pg.max_pages) => Len(pg.seen) = pg.total_pages

(* While a call runs, a page never lowers the bound, and a page without    *)
(* totalPages leaves it as it was.                                         *)
BoundNeverLowered ==
    (pg.pc = "loop" /\ Len(pg'.seen) = Len(pg.seen) + 1) =>
        /\ pg'.total_pages >= pg.total_pages
        /\ pg'.seen[Len(pg'.seen)].total.h # "int" => pg'.total_pages = pg.total_pages

(* C20: fetch_system_waypoints keeps the total-page count as the maximum   *)
(* of all totalPages values seen so far: a later page reporting a smaller  *)
(* value, or none, never lowers it, and pages go on being requested up to  *)
(* that maximum (subject to max_pages and the empty-page stop).            *)
RunningMaximum == []BoundIsLargestReported /\ [][BoundNeverLowered]_vars

RunningMaximumWitness ==
    /\ pg.pc = "returned" /\ Len(pg.seen) = 5 /\ pg.max_pages = 5
    /\ pg.seen[1].total = HdrInt(6) /\ pg.seen[2].total = HdrInt(3)
    /\ pg.seen[3].total = HdrAbsent /\ pg.seen[4].total = HdrInt(0)
    /\ pg.total_pages = 6

-----------------------------------------------------------------------------
(* Further claims about the derived-value helpers, under SpecDerived.      *)

NoProgressKnown ==
    \/ pin.departureTime.kind \in {"missing", "bad"}
    \/ pin.arrival.kind \in {"missing", "bad"}
    \/ pin.arrival.t - pin.departureTime.t <= 0

(* C21: travel_progress returns an absent fraction and the placeholder ETA *)
(* if and only if a timestamp is missing or unparsable or arrival minus    *)
(* departure is <= 0; in every other case it returns a fraction.           *)
UnknownProgress ==
    pfn = "travel_progress" =>
        /\ NoProgressKnown =>
               pout = Outcome("none", NoFraction, Placeholder)
        /\ ~NoProgressKnown =>
               (pout.raised = "none" /\ pout.fraction # NoFraction /\ pout.text # Placeholder)


(***************************************************************************)
(* A claim about the distance column of logistic_summary, under            *)
(* SpecDistance.  Every waypoint of these listings is a marketplace, so    *)
(* the entries of that category stand one for one for the listing.         *)
(***************************************************************************)
MarketEntries == pout[Categories[2]]

(* The positions of the listing that carry the reference symbol.           *)
ReferencePositions ==
    {j \in 1..Len(pin.waypoints) :
        pin.current_symbol # 0 /\ pin.waypoints[j].symbol = pin.current_symbol}

(* The waypoint the distances are taken from: the last one so named.       *)
IsReference(j) == j \in ReferencePositions /\ \A k \in ReferencePositions : k <= j

NonNumeric(wp) == wp.x.kind = "bad" \/ wp.y.kind = "bad"

SquaredDistance(a, b) ==
    LET dx == CoordinateValue(a.x) - CoordinateValue(b.x)
        dy == CoordinateValue(a.y) - CoordinateValue(b.y)
    IN  dx * dx + dy * dy

NullExactlyWhenUnknown ==
    \A i \in 1..Len(pin.waypoints) :
        MarketEntries[i].distance = PyNone
            <=> \/ ReferencePositions = {}
                \/ \E j \in 1..Len(pin.waypoints) :
                       IsReference(j) /\ (NonNumeric(pin.waypoints[j]) \/ NonNumeric(pin.waypoints[i]))

(* C22: in every logistic_summary entry the distance is null exactly when  *)
(* the reference symbol is not given or not in the listing, or a           *)
(* coordinate of the reference or of the candidate is non-numeric;         *)
(* otherwise it is the planar Euclidean distance from the reference to the *)
(* candidate, a missing coordinate counting as 0, rounded to one decimal   *)
(* (0 for the reference waypoint itself).                                  *)
NullDistance ==
    pfn = "logistic_summary" =>
        /\ Len(MarketEntries) = Len(pin.waypoints)
        /\ NullExactlyWhenUnknown
        /\ \A i, j \in 1..Len(pin.waypoints) :
               (IsReference(j) /\ MarketEntries[i].distance # PyNone) =>
                   LET tenths == MarketEntries[i].distance.n
                       d2 == SquaredDistance(pin.waypoints[j], pin.waypoints[i])
                   IN  /\ MarketEntries[i].distance.kind = "int"
                       /\ 400 * d2 <= (2 * tenths + 1) * (2 * tenths + 1)
                       /\ tenths = 0 \/ (2 * tenths - 1) * (2 * tenths - 1) <= 400 * d2
                       /\ i = j => tenths = 0

(* A candidate with a missing coordinate, at a distance that is not a      *)
(* whole number of tenths from a reference elsewhere in the listing.       *)
NullDistanceWitness ==
    /\ pfn = "logistic_summary"
    /\ Len(pin.waypoints) = 2
    /\ IsReference(2)
    /\ pin.waypoints[1].x.kind = "missing"
    /\ MarketEntries[1].distance = PyInt(32)
    /\ MarketEntries[2].distance = PyInt(0)

(* The distance as exact: its square is the squared distance.              *)
ExactDistance ==
    pfn = "logistic_summary" =>
        /\ NullExactlyWhenUnknown
        /\ \A i, j \in 1..Len(pin.waypoints) :
               (IsReference(j) /\ MarketEntries[i].distance # PyNone) =>
                   MarketEntries[i].distance.n * MarketEntries[i].distance.n
                       = 100 * SquaredDistance(pin.waypoints[j], pin.waypoints[i])

(***************************************************************************)
(* A claim about absent rate-limit headers, under SpecReq.                 *)
(***************************************************************************)
ThrottledFirst(d) == rq.slept # <<>> /\ rq.slept[1] = Sleep("throttle", d)

ThrottleDue(resp) ==
    /\ resp.remaining.h = "absent" \/ (resp.remaining.h = "int" /\ resp.remaining.v <= 1)
    /\ resp.reset.h \in {"absent", "int"}

ThrottleSleeps(resp) ==
    IF ThrottleDue(resp)
    THEN <<Sleep("throttle", 20 * (IF resp.reset.h = "absent" THEN 1 ELSE resp.reset.v) + 5)>>
    ELSE <<>>

SleepsOfLastAttempt ==
    rq.last.kind = "http" =>
        /\ rq.pc = "loop" =>
               /\ rq.last.status \in Retryable /\ rq.attempt <= rq.retries
               /\ rq.slept = ThrottleSleeps(rq.last) \o <<Sleep("backoff", backoff(rq.attempt))>>
        /\ rq.pc # "loop" => rq.slept = ThrottleSleeps(rq.last)
        /\ (rq.last.status \in Retryable /\ rq.attempt > rq.retries) => rq.pc = "raised"

RetryFollowsBackoff ==
    (rq.pc = "loop" /\ HasSleep("backoff")) =>
        (rq'.nreq = rq.nreq + 1 /\ rq'.sent = Append(rq.sent, Wire(rq)))

(* C24: for every response the throttle sleep, if due, is taken whatever   *)
(* the status and comes first; on a retryable status with budget left it   *)
(* is followed by the backoff sleep and then by the retry; on the attempt   *)
(* that exhausts the budget the throttle sleep, if due, is still taken but *)
(* no backoff sleep precedes the failure.                                  *)
SleepOrdering == []SleepsOfLastAttempt /\ [][RetryFollowsBackoff]_vars

(* A call with budget 1 whose second 503 asked for throttling: it slept    *)
(* 2.25 s and raised with no backoff.                                      *)
SleepOrderingWitness ==
    /\ rq.pc = "raised" /\ rq.retries = 1 /\ rq.nreq = 2 /\ rq.allRetryable
    /\ rq.last.status = 503 /\ rq.last.remaining = HdrInt(0) /\ rq.last.reset = HdrInt(2)
    /\ rq.slept = <<Sleep("throttle", 45)>>

(***************************************************************************)
(* A claim about the handlers of failed commands, under Spec.              *)
(***************************************************************************)
CommandFailed(h) == h.kind \in {"cmd", "nav"} /\ h.outcome = "err"

(* While a command runs and when it fails, the cache is what it was, and   *)
(* the failure asks for no rerun.                                          *)
FailureKeepsCache ==
    /\ (op.kind \in {"cmd", "nav"} /\ ~(hist'.kind \in {"cmd", "nav"} /\ hist'.outcome = "ok"))
           => cache' = cache
    /\ (op.kind \in {"cmd", "nav"} /\ CommandFailed(hist')) => ~hist'.rerun

(* After a failed command, a read of an entry that is still fresh is       *)
(* answered from the cache, with no request.                               *)
ServedAfterFailure ==
    (CommandFailed(hist) /\ op.kind = "none") =>
        \A e \in cache :
            (Fresh(e, clock) /\ e.key.tok = token) =>
                /\ ~(op'.kind = "read" /\ op'.name = e.key.acc /\ op'.arg = e.key.arg)
                /\ (hist'.kind = "read" /\ hist'.name = e.key.acc /\ hist'.arg = e.key.arg)
                       => (hist'.outcome = "hit" /\ hist'.net = 0 /\ hist'.at = e.at)

(* C25: when a command accessor raises, its handler neither clears the     *)
(* read cache nor triggers a rerun, so the entries cached before the       *)
(* command are still served afterwards while they are fresh.               *)
FailedCommandKeepsCache == [][FailureKeepsCache /\ ServedAfterFailure]_vars

(* A command that failed after its five requests, with a cached read       *)
(* still fresh.                                                            *)
FailedCommandKeepsCacheWitness ==
    /\ hist.kind = "cmd" /\ hist.outcome = "err" /\ hist.net = 5 /\ ~hist.rerun
    /\ \E e \in cache : Fresh(e, clock) /\ e.key.tok = token

(***************************************************************************)
(* A claim about what leaves the stored surveys alone, under SpecSurvey.   *)
(***************************************************************************)
(* A step that ends a handler of the given kind with the given outcome.    *)
Ends(kind, outcome) ==
    /\ sv.cur.kind = kind /\ sv'.cur.kind = "none"
    /\ hist'.kind = "cmd" /\ hist'.outcome = outcome

(* A failed extraction that referenced a survey removes nothing, and the   *)
(* survey it referenced is still in the list, at its place.                *)
FailedUseKeepsList ==
    Ends("use", "err") =>
        /\ sv'.lists = sv.lists
        /\ sv'.lists[sv.cur.ship][sv.cur.idx + 1] = sv.cur.survey
        /\ sv'.consumed = sv.consumed

(* An extraction issued without a survey changes no list, however it ends. *)
PlainExtractKeepsLists ==
    sv.cur.kind = "extract" =>
        (sv'.lists = sv.lists /\ (sv'.cur.kind = "none" => rq.body = "none"))

(* A handler of one ship changes no other ship's list, and between         *)
(* handlers no list changes.                                               *)
OtherShipsUntouched ==
    \A ship \in Ships :
        (sv.cur.kind = "none" \/ ship # sv.cur.ship) => sv'.lists[ship] = sv.lists[ship]

(* C26: a failed survey-referencing extraction leaves the ship's survey    *)
(* list unchanged, an extraction issued without a survey never removes a   *)
(* stored survey, and no operation on one ship adds to or removes from     *)
(* another ship's survey list.                                             *)
SurveyFrame == [][FailedUseKeepsList /\ PlainExtractKeepsLists /\ OtherShipsUntouched]_vars

(* Both ships hold surveys, and the last handler to end was an extraction  *)
(* that failed after its five requests.                                    *)
SurveyFrameWitness ==
    /\ sv.cur.kind = "none"
    /\ hist.kind = "cmd" /\ hist.name = "api_extract" /\ hist.outcome = "err" /\ hist.net = 5
    /\ Len(sv.lists["SHIP-1"]) = 2 /\ Len(sv.lists["SHIP-2"]) = 1
    /\ sv.consumed = {}

(***************************************************************************)
(* A claim about the submissions of one api_nav call, under Spec.          *)
(***************************************************************************)
RequestsPerSubmission == DefaultRetries + 1

(* While api_nav runs and once it has ended: one or two bodies, the direct *)
(* one first, the course-wrapped one only after the direct one raised, and *)
(* no more requests than the retry budget allows each of them.             *)
SubmissionsBounded ==
    /\ op.kind = "nav" =>
           /\ op.bodies \in {<<"waypointSymbol">>, <<"waypointSymbol", "course">>}
           /\ rq.body = op.bodies[Len(op.bodies)]
           /\ rq.nreq <= RequestsPerSubmission
           /\ Len(op.bodies) = 1 => op.net = 0
           /\ Len(op.bodies) = 2 =>
                  /\ op.first.exc = "RuntimeError"
                  /\ op.net >= 1 /\ op.net <= RequestsPerSubmission
    /\ (hist.kind = "nav" /\ hist.outcome # "invalid") =>
           /\ hist.bodies \in {<<"waypointSymbol">>, <<"waypointSymbol", "course">>}
           /\ hist.net >= Len(hist.bodies)
           /\ hist.net <= Len(hist.bodies) * RequestsPerSubmission
           /\ Len(hist.bodies) = 2 => hist.first.exc = "RuntimeError"

(* When the course-wrapped submission fails, api_nav ends there, and the   *)
(* exception that reaches the handler is the one that submission raised.   *)
SecondFailureSurfaces ==
    (op.kind = "nav" /\ Len(op.bodies) = 2 /\ rq' # rq /\ rq'.pc # "loop") =>
        /\ op' = NoOp /\ rq' = IdleRequest /\ hist'.kind = "nav"
        /\ hist'.bodies = op.bodies /\ hist'.first = op.first
        /\ \E resp \in SessionResponses :
               LET r == request_pass(rq, resp)
               IN  /\ r.pc # "loop"
                   /\ hist'.net = op.net + r.nreq
                   /\ hist'.final = Raised(r)
                   /\ hist'.outcome = IF r.pc = "returned" THEN "ok" ELSE "err"

(* C27: one api_nav call makes at most two submissions, the direct body    *)
(* first and the course-wrapped body at most once and only after the       *)
(* direct one failed, hence at most 2 * (retries + 1) HTTP requests; when  *)
(* the course-wrapped submission fails too, that second failure is the     *)
(* error surfaced and there is no third attempt.                           *)
NavigateBound == []SubmissionsBounded /\ [][SecondFailureSurfaces]_vars

(* Ten requests: the direct body rejected on its fifth with an error that  *)
(* names the course, the course-wrapped body failing on all five.          *)
NavigateBoundWitness ==
    /\ hist.kind = "nav" /\ hist.outcome = "err"
    /\ hist.bodies = <<"waypointSymbol", "course">>
    /\ hist.net = 10
    /\ hist.first.err.status = 400 /\ hist.final.err.status = 503

(***************************************************************************)
(* A claim about network-level failures, under SpecReq.                    *)
(***************************************************************************)
(* After an attempt that got no response the call has raised the transport *)
(* exception, with no sleep taken.                                         *)
NetFailureRaises ==
    rq.last.kind = "net" =>
        /\ rq.pc = "raised" /\ rq.exc = "RequestException" /\ rq.err = NoError
        /\ rq.slept = <<>>

(* The failed attempt is the call's last: it counts one request, uses no   *)
(* retry, and the next request belongs to a new call.                      *)
NetFailureEndsCall ==
    /\ (rq.pc = "loop" /\ rq' # rq /\ rq'.last.kind = "net") =>
           /\ rq'.nreq = rq.nreq + 1 /\ rq'.attempt = rq.attempt
           /\ rq'.sent = Append(rq.sent, Wire(rq))
    /\ (rq.last.kind = "net" /\ rq' # rq) => (rq'.pc = "loop" /\ rq'.nreq = 0)

(* C28: an attempt that raises a transport exception other than an HTTP    *)
(* status error makes request abort at once with that exception: no        *)
(* further attempt and no backoff sleep, even when retry budget remains.   *)
NetworkFailureAborts == []NetFailureRaises /\ [][NetFailureEndsCall]_vars

(* A call with budget 4 whose second attempt, after one 503, got no        *)
(* response: raised after two requests, three retries unused.              *)
NetworkFailureAbortsWitness ==
    /\ rq.last.kind = "net" /\ rq.pc = "raised"
    /\ rq.retries = 4 /\ rq.attempt = 1 /\ rq.nreq = 2
    /\ rq.slept = <<>>

(***************************************************************************)
(* A claim about script runs without a token, under Spec.                  *)
(***************************************************************************)
TokenUnset == token = NoToken \/ token = ""

(* With the token unset no accessor is running and no request is open.     *)
UnsetMeansQuiet == TokenUnset => (op = NoOp /\ rq = IdleRequest /\ cache = {})

(* A step taken with the token unset calls no accessor: it sends nothing,  *)
(* serves nothing from the cache, and is a token button or the passing of  *)
(* time.  "Use Token" with an empty input leaves token and cache as they   *)
(* were.                                                                   *)
UnsetCallsNothing ==
    /\ TokenUnset =>
           /\ rq' = rq /\ op' = op
           /\ hist' # hist => hist'.kind = "token"
    /\ (hist' # hist /\ hist'.kind = "token" /\ hist'.name = "warn") =>
           (token' = token /\ cache' = cache /\ ~hist'.rerun)
    /\ (hist' # hist /\ hist'.kind = "token" /\ hist'.name = "clear") => token' = NoToken

(* C29: in every script run in which the session token is unset            *)
(* (initially, after "Clear Token", or after "Use Token" with an empty     *)
(* input, which leaves token and cache unchanged) no read accessor and no  *)
(* command accessor is invoked, so no network request is sent.             *)
NoCredentialNoTraffic == []UnsetMeansQuiet /\ [][UnsetCallsNothing]_vars

(* "Use Token" pressed with an empty input while the token is unset, some  *)
(* time into the session.                                                  *)
NoCredentialNoTrafficWitness ==
    /\ TokenUnset /\ hist.kind = "token" /\ hist.name = "warn"
    /\ clock = 300 /\ rq = IdleRequest /\ op = NoOp

(***************************************************************************)
(* A claim about the token and the cached reads, under Spec.               *)
(***************************************************************************)
(* Every entry is keyed by the token its payload was fetched with, and no  *)
(* entry outlives a change of token.                                       *)
EntriesOfCurrentToken ==
    \A e \in cache : e.key.tok = e.by /\ e.by = token

(* A read that returned a payload returned one fetched with the token it   *)
(* was called with.                                                        *)
ReadsOwnPayload ==
    (hist.kind = "read" /\ hist.outcome \in {"hit", "ok"}) =>
        (hist.by = hist.tok /\ hist.tok # NoToken)

(* "Use Token" with a token and "Clear Token" empty the cache; a read      *)
(* answered from the cache is answered by an entry under the current       *)
(* token's key.                                                            *)
TokenChangeClears ==
    /\ token' # token => cache' = {}
    /\ (hist' # hist /\ hist'.kind = "token" /\ hist'.name \in {"use", "clear"}) => cache' = {}
    /\ (hist' # hist /\ hist'.kind = "read" /\ hist'.outcome = "hit") =>
           \E e \in cache :
               /\ e.key = [acc |-> hist'.name, tok |-> token, arg |-> hist'.arg]
               /\ e.by = hist'.by /\ e.at = hist'.at

(* C30: the token is part of every read accessor's cache key and the cache *)
(* is cleared on every "Use Token" and "Clear Token", so a read performed  *)
(* under one token never returns a payload fetched with another.           *)
TokenIsolation == [](EntriesOfCurrentToken /\ ReadsOwnPayload) /\ [][TokenChangeClears]_vars

(* A read under tokB answered from the cache, 180 s after the payload was *)
(* fetched with tokB.                                                      *)
TokenIsolationWitness ==
    /\ token = "tokB" /\ hist.kind = "read" /\ hist.outcome = "hit"
    /\ hist.tok = "tokB" /\ hist.by = "tokB"
    /\ hist.at = 120 /\ clock = 300
=============================================================================
